---- MODULE Spec2Model ----
(***************************************************************************)
(* Model of serp_extractor.js: the discovery session                       *)
(* (getGoogleResultsWithHumanSimulation), the human typing simulation      *)
(* (typeHumanLike / typeText), the URL extraction of the results page, the *)
(* per-URL content fetch (fetchPageContentWithPlaywright), the report     *)
(* assembly (extractWithHumanSimulation, main) and the command line        *)
(* (parseArguments).                                                       *)
(*                                                                         *)
(* JavaScript strings are tuples of one-character strings, so that         *)
(* startsWith / includes / toLowerCase / split are computed, not assumed.  *)
(***************************************************************************)
EXTENDS Integers, Sequences, FiniteSets, TLC

VARIABLES
    pc,            \* position of the main flow
    args,          \* process.argv.slice(2)
    usage,         \* showHelp() printed the usage message
    headless,      \* CONFIG.browser.headless
    rnd,           \* Math.floor(Math.random() * FINGERPRINT_POOL.length)
    launches,      \* launchOptions of the chromium.launch calls of the discovery run
    fingerprints,  \* the entries getRandomFingerprint() returned to the discovery run
    initScripts,   \* init scripts registered on the discovery page
    contextConfigs,\* contextConfig of each context of the discovery run
    injected,      \* navigator overrides of each init script registered
    socket,        \* socket !== null: --ws gave a socket
    emitted,       \* job events passed to socket.emit, in order
    OXY_USER,      \* process.env.OXY_USER is set
    OXY_PASS,      \* process.env.OXY_PASS is set
    query,         \* options.query
    maxResults,    \* options.maxResults
    stealthMode,   \* options.stealthMode
    proxyTests,    \* connectivityTest / advancedTest of the discovery run
    nav,           \* browser / context / page handles of the discovery run
    navCloseCalls, \* close() calls made on each discovery handle
    tabs,          \* distraction tabs opened in the discovery context
    timer,         \* the setTimeout that closes the distraction tabs is pending
    swallowed,     \* the failure the last step caught and ignored ("none": none)
    present,       \* the search selectors that appear on the home page
    searchBox,     \* the selector chosen by the cascade (0: null)
    field,         \* the search field: its text and whether it is selected
    submitted,     \* the text in the field when Enter was pressed
    pageContent,   \* page.content() of the results page
    dom,           \* the anchors of the results page, in document order
    screenshots,   \* screenshot files written
    urls,          \* the URL list of the discovery run
    error,         \* the error in flight / delivered to the caller
    navOutcome,    \* what getGoogleResultsWithHumanSimulation delivered
    idx,           \* loop index i of extractWithHumanSimulation (0-based)
    frames,        \* activations of fetchPageContentWithPlaywright for urls[idx]
    attempts,      \* fetch attempts made for urls[idx]: method and answer
    results,       \* results[] of extractWithHumanSimulation
    report,        \* the file written by extractWithHumanSimulation
    exitCode       \* process.exit status

vars == <<pc, args, usage, headless, rnd, launches, fingerprints,
          initScripts, contextConfigs, injected, socket, emitted, OXY_USER, OXY_PASS, query, maxResults, stealthMode, proxyTests,
          nav, navCloseCalls, tabs, timer, swallowed, present, searchBox,
          field, submitted, pageContent, dom, screenshots, urls, error, navOutcome, idx, frames, attempts,
          results, report, exitCode>>

(***************************************************************************)
(* Bounds of the model.                                                    *)
(***************************************************************************)
MaxTextLen == 3      \* longest text typed under SpecType
MaxAnchors == 3      \* most anchors on a results page under SpecExtract
MaxResultsArg == 2   \* largest --max-results drawn (the program allows 1..10)
MaxClosing == 1      \* most earlier fetch activations still closing when a
                     \* retry starts (the cleanup of a failed attempt may
                     \* overlap the attempts that follow it)
MaxArgs == 3         \* most words on a command line under SpecArgs

(***************************************************************************)
(* JavaScript string primitives.                                           *)
(***************************************************************************)
StartsWith(s, pre) ==
    /\ Len(s) >= Len(pre)
    /\ SubSeq(s, 1, Len(pre)) = pre

Includes(s, sub) ==
    \E k \in 0..(Len(s) - Len(sub)) : SubSeq(s, k + 1, k + Len(sub)) = sub

IndexOf(s, sub) ==
    IF Includes(s, sub)
    THEN CHOOSE k \in 0..(Len(s) - Len(sub)) :
            /\ SubSeq(s, k + 1, k + Len(sub)) = sub
            /\ \A j \in 0..(k - 1) : SubSeq(s, j + 1, j + Len(sub)) # sub
    ELSE -1

UpperCaseLetters ==
    <<"A","B","C","D","E","F","G","H","I","J","K","L","M",
      "N","O","P","Q","R","S","T","U","V","W","X","Y","Z">>

LowerCaseLetters ==
    <<"a","b","c","d","e","f","g","h","i","j","k","l","m",
      "n","o","p","q","r","s","t","u","v","w","x","y","z">>

CharToLowerCase(c) ==
    IF \E k \in 1..26 : UpperCaseLetters[k] = c
    THEN LowerCaseLetters[CHOOSE k \in 1..26 : UpperCaseLetters[k] = c]
    ELSE c

ToLowerCase(s) == [k \in 1..Len(s) |-> CharToLowerCase(s[k])]

\* text.split(' '): the words between single spaces (empty words included).
RECURSIVE Split(_)
Split(s) ==
    IF \A k \in 1..Len(s) : s[k] # " "
    THEN <<s>>
    ELSE LET p == CHOOSE k \in 1..Len(s) :
                    s[k] = " " /\ \A j \in 1..(k - 1) : s[j] # " "
         IN  <<SubSeq(s, 1, p - 1)>> \o Split(SubSeq(s, p + 1, Len(s)))

(***************************************************************************)
(* The keyboard and the search field (Playwright page.keyboard).           *)
(* A field is its text and whether the whole text is selected.             *)
(***************************************************************************)
EmptyField == [text |-> <<>>, selected |-> FALSE]

\* page.click(selector): focuses the field, any selection collapses.
Click(f) == [f EXCEPT !.selected = FALSE]

\* Control down, KeyA, Control up.
SelectAll(f) == [f EXCEPT !.selected = TRUE]

\* keyboard.press('Backspace')
Backspace(f) ==
    IF f.selected THEN EmptyField
    ELSE IF f.text = <<>> THEN f
    ELSE [f EXCEPT !.text = SubSeq(f.text, 1, Len(f.text) - 1)]

\* keyboard.type(char): typing over a selection replaces it.
KeyboardType(f, char) ==
    IF f.selected THEN [text |-> <<char>>, selected |-> FALSE]
    ELSE [f EXCEPT !.text = Append(f.text, char)]

RECURSIVE TypeWord(_, _)
TypeWord(f, word) ==
    IF word = <<>> THEN f
    ELSE TypeWord(KeyboardType(f, Head(word)), Tail(word))

RECURSIVE TypeWords(_, _)
TypeWords(f, words) ==
    IF words = <<>> THEN f
    ELSE LET g == TypeWord(f, Head(words))
         IN  IF Len(words) > 1
             THEN TypeWords(KeyboardType(g, " "), Tail(words))
             ELSE g

typeText(f, text) == TypeWords(f, Split(text))

typos ==
    [c \in {"a","e","i","o","u","s","d","f","g","h","z","x","c","v","b"} |->
        CASE c = "a" -> "q" [] c = "e" -> "r" [] c = "i" -> "o"
          [] c = "o" -> "p" [] c = "u" -> "y" [] c = "s" -> "a"
          [] c = "d" -> "s" [] c = "f" -> "d" [] c = "g" -> "f"
          [] c = "h" -> "g" [] c = "z" -> "x" [] c = "x" -> "c"
          [] c = "c" -> "v" [] c = "v" -> "b" [] c = "b" -> "n"]

\* typeHumanLike(page, selector, text) on a field holding f0.
\*   misspell    : sometimesMisspell && Math.random() < 0.1
\*   randomIndex : Math.floor(Math.random() * textArray.length), 0-based
\*   correct     : sometimesCorrect && Math.random() < 0.8
typeHumanLike(f0, text, misspell, randomIndex, correct) ==
    LET cleared == Backspace(SelectAll(Click(f0)))
        originalChar == CharToLowerCase(text[randomIndex + 1])
    IN  IF misspell /\ originalChar \in DOMAIN typos
        THEN LET typoText == [text EXCEPT ![randomIndex + 1] = typos[originalChar]]
                 typed == typeText(cleared, typoText)
             IN  IF correct
                 THEN typeText(SelectAll(typed), text)
                 ELSE typed
        ELSE typeText(cleared, text)

(***************************************************************************)
(* Texts typed into the search field: parseArguments returns query.trim()  *)
(* and rejects an empty one, so a text is non-empty and neither starts nor *)
(* ends with a space.                                                      *)
(***************************************************************************)
TypedChars == {"a", "A", "k", " "}

SeqsUpTo(S, n) == UNION {[1..m -> S] : m \in 0..n}

Texts(n) ==
    {t \in SeqsUpTo(TypedChars, n) :
        t # <<>> /\ t[1] # " " /\ t[Len(t)] # " "}

\* Content a search field may hold before typeHumanLike clears it.
InitialFields ==
    {EmptyField, [text |-> <<"k","a">>, selected |-> FALSE]}

(***************************************************************************)
(* URLs and the results page.                                              *)
(***************************************************************************)
S_http == <<"h","t","t","p">>
S_https == <<"h","t","t","p","s">>
S_colon == <<":">>
S_slash == <<"/">>
S_sep == <<":","/","/">>
S_google_com == <<"g","o","o","g","l","e",".","c","o","m">>
S_youtube_com == <<"y","o","u","t","u","b","e",".","c","o","m">>
S_maps_google_com == <<"m","a","p","s",".","g","o","o","g","l","e",".","c","o","m">>
S_translate_google_com == <<"t","r","a","n","s","l","a","t","e",".","g","o","o","g","l","e",".","c","o","m">>

\* The document the anchors are resolved against: the search engine's page.
BaseOrigin == <<"h","t","t","p","s",":","/","/","w","w","w",".","g","o","o","g","l","e",".","c","o","m">>

\* The scheme of a raw href ("" when the href is relative).
SchemeOf(href) ==
    LET c == IndexOf(href, S_colon)
        s == IndexOf(href, S_slash)
    IN  IF c > 0 /\ (s = -1 \/ c < s) THEN SubSeq(href, 1, c) ELSE <<>>

\* What follows "scheme://" in an absolute URL.
AfterScheme(url) ==
    LET c == IndexOf(url, S_sep)
    IN  IF c = -1 THEN <<>> ELSE SubSeq(url, c + 4, Len(url))

HostOf(url) ==
    LET rest == AfterScheme(url)
        s == IndexOf(rest, S_slash)
    IN  IF s = -1 THEN rest ELSE SubSeq(rest, 1, s)

PathOf(url) ==
    LET rest == AfterScheme(url)
        s == IndexOf(rest, S_slash)
    IN  IF s = -1 THEN <<>> ELSE SubSeq(rest, s + 1, Len(rest))

\* a.href: the anchor's href attribute resolved by the browser. http(s) URLs
\* get a lower-case host and a path; other schemes are kept as written; a
\* relative reference is resolved against the document.
Href(attr) ==
    LET scheme == ToLowerCase(SchemeOf(attr))
    IN  IF scheme \in {S_http, S_https}
        THEN scheme \o S_sep \o ToLowerCase(HostOf(attr))
                \o (IF PathOf(attr) = <<>> THEN S_slash ELSE PathOf(attr))
        ELSE IF scheme # <<>> THEN attr
        ELSE IF StartsWith(attr, S_slash) THEN BaseOrigin \o attr
        ELSE BaseOrigin \o S_slash \o attr

\* The part shared by the six selectors of the cascade:
\* a[href^="http"]:not([href*="google.com"])
MatchesAnchorSelector(attr) ==
    /\ StartsWith(attr, S_http)
    /\ ~Includes(attr, S_google_com)

NumSelectors == 6

\* document.querySelectorAll(selectors[k]) on a document whose anchors are
\* doc: an anchor is [href, within], within the selectors whose container
\* part (div.MjjYud, div.g, ...) holds the anchor.
QuerySelectorAll(doc, k) ==
    SelectSeq(doc, LAMBDA a : k \in a.within /\ MatchesAnchorSelector(a.href))

\* The cascade that prefers the later selectors: the elements of the last
\* selector that matches anything.
RECURSIVE CascadeFrom_LastMatch(_, _)
CascadeFrom_LastMatch(doc, k) ==
    IF k > NumSelectors THEN <<>>
    ELSE IF CascadeFrom_LastMatch(doc, k + 1) # <<>>
         THEN CascadeFrom_LastMatch(doc, k + 1)
    ELSE QuerySelectorAll(doc, k)

\* The cascade: the elements of the first selector that matches anything.
RECURSIVE CascadeFrom(_, _)
CascadeFrom(doc, k) ==
    IF k > NumSelectors THEN <<>>
    ELSE IF QuerySelectorAll(doc, k) # <<>> THEN QuerySelectorAll(doc, k)
    ELSE CascadeFrom(doc, k + 1)

SelectorCascade(doc) == CascadeFrom(doc, 1)

Slice(s, n) == SubSeq(s, 1, IF Len(s) < n THEN Len(s) ELSE n)

\* The filter of the extraction, on a resolved URL.
KeepUrl(url) ==
    /\ url # <<>>
    /\ StartsWith(url, S_http)
    /\ ~Includes(url, S_google_com)
    /\ ~Includes(url, S_youtube_com)
    /\ ~Includes(url, S_maps_google_com)
    /\ ~Includes(url, S_translate_google_com)

\* The extraction that filters every matched element and truncates once.
ExtractUrls_FilterFirst(doc, n) ==
    LET elements == SelectorCascade(doc)
        hrefs == [k \in 1..Len(elements) |-> Href(elements[k].href)]
    IN  Slice(SelectSeq(hrefs, KeepUrl), n)

\* The function evaluated in the page: elements.slice(0, maxResults * 2)
\* .map(a => a.href).filter(...).slice(0, maxResults)
ExtractUrls(doc, n) ==
    LET elements == SelectorCascade(doc)
        firsts == Slice(elements, n * 2)
        hrefs == [k \in 1..Len(firsts) |-> Href(firsts[k].href)]
    IN  Slice(SelectSeq(hrefs, KeepUrl), n)

\* Raw href attributes found on a results page.
A_example == <<"h","t","t","p","s",":","/","/","e","x","a","m","p","l","e",".","o","r","g","/","a">>
A_plain == <<"h","t","t","p",":","/","/","e","x",".","n","e","t">>
A_video == <<"h","t","t","p","s",":","/","/","w","w","w",".","y","o","u","t","u","b","e",".","c","o","m","/","w">>
A_maps == <<"h","t","t","p","s",":","/","/","m","a","p","s",".","g","o","o","g","l","e",".","c","o","m","/">>
A_upper == <<"h","t","t","p","s",":","/","/","W","W","W",".","G","O","O","G","L","E",".","C","O","M","/","x">>
A_httpx == <<"h","t","t","p","x",":","/","/","e","x",".","i","o","/">>
A_relative == <<"h","t","t","p","d","/","x">>

HrefAttrs == {A_example, A_plain, A_video, A_maps, A_upper, A_httpx, A_relative}

\* Where an anchor sits: inside div.MjjYud (selector 1), inside div.g with an
\* h3 parent (selectors 2 and 5), or outside every result container.
Containers == {{1}, {2, 5}, {}}

Anchors == [href : HrefAttrs, within : Containers]

Anchor(h, w) == [href |-> h, within |-> w]

\* Results pages served to the discovery run of Spec.
SamplePages ==
    { <<>>,
      <<Anchor(A_video, {1}), Anchor(A_upper, {1})>>,
      <<Anchor(A_maps, {1}), Anchor(A_example, {2, 5})>>,
      <<Anchor(A_video, {1}), Anchor(A_example, {1}), Anchor(A_plain, {1}),
        Anchor(A_httpx, {1}), Anchor(A_example, {2, 5})>> }

(***************************************************************************)
(* Errors. An error is named by where it is raised; ErrorMessage gives its *)
(* message, which the handlers search for substrings.                      *)
(***************************************************************************)
S_reCAPTCHA == <<"r","e","C","A","P","T","C","H","A">>
S_robot == <<"r","o","b","o","t">>
S_captcha == <<"c","a","p","t","c","h","a">>

ErrorMessage(e) ==
    CASE e = "proxy" -> <<"P","r","o","x","y"," ","O","x","y","l","a","b","s"," ","i","n","a","c","c","e","s","s","i","b","l","e">>
      [] e = "searchbox" -> <<"I","m","p","o","s","s","i","b","l","e"," ","d","e"," ","t","r","o","u","v","e","r"," ","l","a"," ","b","a","r","r","e"," ","d","e"," ","r","e","c","h","e","r","c","h","e"," ","G","o","o","g","l","e">>
      [] e = "challenge" -> <<"r","e","C","A","P","T","C","H","A"," ","d","e","t","e","c","t","e"," ","-"," ","c","h","a","n","g","e","z"," ","d","'","I","P"," ","o","u"," ","a","t","t","e","n","d","e","z">>
      [] e = "noresult" -> <<"A","u","c","u","n"," ","r","e","s","u","l","t","a","t"," ","t","r","o","u","v","e"," ","s","u","r"," ","G","o","o","g","l","e">>
      [] e = "screenshot" -> <<"p","a","g","e",".","s","c","r","e","e","n","s","h","o","t",":"," ","T","i","m","e","o","u","t"," ","3","0","0","0","0","m","s"," ","e","x","c","e","e","d","e","d",".">>
      [] e = "close" -> <<"P","r","o","t","o","c","o","l"," ","e","r","r","o","r",":"," ","C","o","n","n","e","c","t","i","o","n"," ","c","l","o","s","e","d",".">>
      [] e = "write" -> <<"E","A","C","C","E","S",":"," ","p","e","r","m","i","s","s","i","o","n"," ","d","e","n","i","e","d">>
      [] OTHER -> <<"T","i","m","e","o","u","t"," ","6","0","0","0","0","m","s"," ","e","x","c","e","e","d","e","d",".">>

\* main: error.message.includes('reCAPTCHA') || error.message.includes('robot')
\* decides whether the remediation hints are printed.
PrintsChallengeHints(e) ==
    \/ Includes(ErrorMessage(e), S_reCAPTCHA)
    \/ Includes(ErrorMessage(e), S_robot)

(***************************************************************************)
(* The results page as page.content() returns it.                          *)
(***************************************************************************)
P_results == <<"<","h","3",">","r","e","s","u","l","t","s","<","/","h","3",">">>
P_recaptcha == <<"<","d","i","v",">","r","e","C","A","P","T","C","H","A","<","/","d","i","v",">">>
P_robot == <<"n","o","t"," ","a"," ","r","o","b","o","t">>
P_captcha == <<"/","c","a","p","t","c","h","a","/">>
P_upper == <<"C","A","P","T","C","H","A"," ","R","o","b","o","t">>

PageContents == {P_results, P_recaptcha, P_robot, P_captcha, P_upper}

\* What the search answers with: a results page with any of the sample
\* documents, or one of the other pages, which carry no result anchor.
ServedPages ==
    {[content |-> P_results, dom |-> d] : d \in SamplePages}
        \cup {[content |-> c, dom |-> <<>>] : c \in PageContents \ {P_results}}

\* pageContent.includes('reCAPTCHA') || .includes('robot') || .includes('captcha')
ChallengeDetected(content) ==
    \/ Includes(content, S_reCAPTCHA)
    \/ Includes(content, S_robot)
    \/ Includes(content, S_captcha)

(***************************************************************************)
(* The proxy gate.                                                         *)
(***************************************************************************)
\* buildOxylabsProxy(): a proxy only when both credentials are set.
buildOxylabsProxy == OXY_USER /\ OXY_PASS

\* What one curl probe gives: an answer on stdout, nothing, or a failure.
CurlOutcomes == {"stdout", "empty", "error"}

\* testProxyConnectivityWithCurl: true only when curl printed an address.
testProxyConnectivityWithCurl(out) == out = "stdout"

\* advancedProxyTest: true as soon as one of the three test URLs answers.
advancedProxyTest(outs) == \E k \in 1..Len(outs) : outs[k] = "stdout"

\* The gate that gives up only when both tests fail.
ProxyRejected_BothFail(connectivityTest, advancedTest) ==
    ~connectivityTest /\ ~advancedTest

\* if (!connectivityTest || !advancedTest) throw
ProxyRejected(connectivityTest, advancedTest) ==
    ~connectivityTest \/ ~advancedTest

(***************************************************************************)
(* getGoogleResultsWithHumanSimulation                                     *)
(***************************************************************************)
NoHandles == [browser |-> "null", context |-> "null", page |-> "null"]
NoCalls == [browser |-> 0, context |-> 0, page |-> 0]

\* An exception inside the try block: control goes to the catch clause.
NavThrow(e) ==
    /\ error' = e
    /\ pc' = "nav_catch"

\* What the run was started with.
optionsUnchanged ==
    UNCHANGED <<args, usage, headless, rnd, OXY_USER, OXY_PASS, query,
                maxResults, stealthMode, socket>>

\* The same, and no job event is emitted.
inputsUnchanged == optionsUnchanged /\ UNCHANGED emitted

\* Line 779: if (socket) { socket.emit(event, ...) }
Emit(event) == IF socket THEN Append(emitted, event) ELSE emitted

\* What the discovery run set up: the launch, the fingerprint, the init
\* script.
sessionUnchanged ==
    UNCHANGED <<launches, fingerprints, initScripts, contextConfigs, injected>>

\* What the page of the discovery run shows and what was done to it.
pageUnchanged == UNCHANGED <<tabs, timer, swallowed, present, searchBox>>

discoveryUnchanged ==
    /\ pageUnchanged
    /\ UNCHANGED <<proxyTests, nav, navCloseCalls, field, submitted,
                   pageContent, dom, screenshots, urls, navOutcome>>

fetchUnchanged ==
    UNCHANGED <<idx, frames, attempts, results, report, exitCode>>

\* Lines 14-59: the fixed pool of fingerprints.
FINGERPRINT_POOL ==
    << [userAgent |-> "Mozilla/5.0 (Windows NT 10.0; Win64; x64) AppleWebKit/537.36 (KHTML, like Gecko) Chrome/119.0.0.0 Safari/537.36",
        viewport |-> <<1920, 1080>>,
        locale |-> "en-US", timezoneId |-> "America/New_York",
        platform |-> "Win32", memory |-> 8, cores |-> 8,
        languages |-> <<"en-US", "en">>,
        acceptLanguage |-> "en-US,en;q=0.9"],
       [userAgent |-> "Mozilla/5.0 (Macintosh; Intel Mac OS X 10_15_7) AppleWebKit/537.36 (KHTML, like Gecko) Chrome/119.0.0.0 Safari/537.36",
        viewport |-> <<1440, 900>>,
        locale |-> "en-US", timezoneId |-> "America/Los_Angeles",
        platform |-> "MacIntel", memory |-> 16, cores |-> 8,
        languages |-> <<"en-US", "en">>,
        acceptLanguage |-> "en-US,en;q=0.9"],
       [userAgent |-> "Mozilla/5.0 (X11; Linux x86_64) AppleWebKit/537.36 (KHTML, like Gecko) Chrome/119.0.0.0 Safari/537.36",
        viewport |-> <<1366, 768>>,
        locale |-> "fr-FR", timezoneId |-> "Europe/Paris",
        platform |-> "Linux x86_64", memory |-> 8, cores |-> 4,
        languages |-> <<"fr-FR", "fr", "en-US", "en">>,
        acceptLanguage |-> "fr-FR,fr;q=0.9,en;q=0.8"],
       [userAgent |-> "Mozilla/5.0 (Windows NT 10.0; Win64; x64) AppleWebKit/537.36 (KHTML, like Gecko) Chrome/118.0.0.0 Safari/537.36",
        viewport |-> <<1536, 864>>,
        locale |-> "de-DE", timezoneId |-> "Europe/Berlin",
        platform |-> "Win32", memory |-> 16, cores |-> 12,
        languages |-> <<"de-DE", "de", "en">>,
        acceptLanguage |-> "de-DE,de;q=0.9,en;q=0.8"] >>

\* Line 67: CONFIG.context.userAgent, the user agent of the configuration.
CONFIG_context_userAgent ==
    "Mozilla/5.0 (X11; Linux x86_64) AppleWebKit/537.36 (KHTML, like Gecko) Chrome/119.0.0.0 Safari/537.36"

\* The fingerprint built from the selected entry with the locale of the
\* configuration in place of the entry's own.
getRandomFingerprint_ConfigLocale ==
    [FINGERPRINT_POOL[rnd + 1] EXCEPT !.locale = "fr-FR"]

\* Lines 61-63: FINGERPRINT_POOL[Math.floor(Math.random() * length)]
getRandomFingerprint == FINGERPRINT_POOL[rnd + 1]

\* Lines 504-525: the configuration of the context, from the fingerprint.
contextConfig(randomFingerprint) ==
    [viewport |-> randomFingerprint.viewport,
     userAgent |-> randomFingerprint.userAgent,
     locale |-> randomFingerprint.locale,
     timezoneId |-> randomFingerprint.timezoneId,
     acceptLanguage |-> randomFingerprint.acceptLanguage]

\* The init script that overrides the navigator properties with the values
\* of the configuration's own profile, whatever fingerprint it is given.
setupAdvancedStealthMode_Defaults(fingerprint) ==
    [languages |-> <<"fr-FR", "fr", "en-US", "en">>,
     deviceMemory |-> 8,
     hardwareConcurrency |-> 4,
     platform |-> "Linux x86_64"]

\* Lines 155-221: fp = fingerprint || getRandomFingerprint(); the init
\* script overrides navigator.languages, deviceMemory, hardwareConcurrency
\* and platform with the values of fp ("null": no fingerprint given).
setupAdvancedStealthMode(fingerprint) ==
    LET fp == IF fingerprint # [userAgent |-> "null"] THEN fingerprint
              ELSE getRandomFingerprint
    IN  [languages |-> fp.languages,
         deviceMemory |-> fp.memory,
         hardwareConcurrency |-> fp.cores,
         platform |-> fp.platform]

\* Lines 473-489: the proxy is probed before anything is launched.
NavProxyGate ==
    /\ pc = "nav_proxy"
    /\ IF buildOxylabsProxy
       THEN \E out \in CurlOutcomes, outs \in [1..3 -> CurlOutcomes] :
              LET connectivityTest == testProxyConnectivityWithCurl(out)
                  advancedTest == advancedProxyTest(outs)
              IN  /\ proxyTests' = [connectivity |-> connectivityTest,
                                    advanced |-> advancedTest]
                  /\ IF ProxyRejected(connectivityTest, advancedTest)
                     THEN NavThrow("proxy")
                     ELSE pc' = "nav_launch" /\ error' = error
       ELSE /\ pc' = "nav_launch"
            /\ UNCHANGED <<proxyTests, error>>
    /\ inputsUnchanged /\ sessionUnchanged /\ fetchUnchanged /\ pageUnchanged
    /\ UNCHANGED <<nav, navCloseCalls, field, submitted, pageContent,
                   dom, screenshots, urls, navOutcome>>

\* Line 501: browser = await chromium.launch(launchOptions)
NavLaunch ==
    /\ pc = "nav_launch"
    /\ fingerprints' = Append(fingerprints, getRandomFingerprint)
    /\ launches' = Append(launches, [headless |-> headless,
                                     proxy |-> buildOxylabsProxy])
    /\ \/ /\ nav' = [nav EXCEPT !.browser = "open"]
          /\ pc' = "nav_context"
          /\ error' = error
       \/ /\ NavThrow("launch")
          /\ nav' = nav
    /\ UNCHANGED <<initScripts, contextConfigs, injected>>
    /\ inputsUnchanged /\ fetchUnchanged /\ pageUnchanged
    /\ UNCHANGED <<proxyTests, navCloseCalls, field, submitted, pageContent,
                   dom, screenshots, urls, navOutcome>>

\* Line 527: context = await browser.newContext(contextConfig)
NavNewContext ==
    /\ pc = "nav_context"
    /\ \/ /\ nav' = [nav EXCEPT !.context = "open"]
          /\ contextConfigs' =
                 Append(contextConfigs,
                        contextConfig(fingerprints[Len(fingerprints)]))
          /\ pc' = "nav_page"
          /\ error' = error
       \/ /\ NavThrow("context")
          /\ UNCHANGED <<nav, contextConfigs>>
    /\ UNCHANGED <<launches, fingerprints, initScripts, injected>>
    /\ inputsUnchanged /\ fetchUnchanged /\ pageUnchanged
    /\ UNCHANGED <<proxyTests, navCloseCalls, field, submitted, pageContent,
                   dom, screenshots, urls, navOutcome>>

\* Line 529: await context.route(...); page = await context.newPage()
NavNewPage ==
    /\ pc = "nav_page"
    /\ \/ /\ nav' = [nav EXCEPT !.page = "open"]
          /\ pc' = "nav_stealth"
          /\ error' = error
       \/ /\ \E e \in {"route", "page"} : NavThrow(e)
          /\ nav' = nav
    /\ inputsUnchanged /\ sessionUnchanged /\ fetchUnchanged /\ pageUnchanged
    /\ UNCHANGED <<proxyTests, navCloseCalls, field, submitted, pageContent,
                   dom, screenshots, urls, navOutcome>>

\* The stealth step that registers the init script whatever the stealth
\* option says.
NavStealth_Always ==
    /\ pc = "nav_stealth"
    /\ \/ /\ pc' = "nav_tabs"
          /\ error' = error
          /\ initScripts' = initScripts + 1
          /\ injected' = injected
       \/ /\ stealthMode
          /\ NavThrow("stealth")
          /\ UNCHANGED <<initScripts, injected>>
    /\ UNCHANGED <<launches, fingerprints, contextConfigs>>
    /\ inputsUnchanged /\ fetchUnchanged /\ pageUnchanged
    /\ UNCHANGED <<proxyTests, nav, navCloseCalls, field, submitted,
                   pageContent, dom, screenshots, urls, navOutcome>>

\* Line 531: if (stealthMode) await setupAdvancedStealthMode(page, ...): the
\* init script is registered by one unguarded call.
NavStealth ==
    /\ pc = "nav_stealth"
    /\ \/ /\ pc' = "nav_tabs"
          /\ error' = error
          /\ IF stealthMode
             THEN /\ initScripts' = initScripts + 1
                  /\ injected' =
                         Append(injected,
                                setupAdvancedStealthMode(
                                    fingerprints[Len(fingerprints)]))
             ELSE UNCHANGED <<initScripts, injected>>
       \/ /\ stealthMode
          /\ NavThrow("stealth")
          /\ UNCHANGED <<initScripts, injected>>
    /\ UNCHANGED <<launches, fingerprints, contextConfigs>>
    /\ inputsUnchanged /\ fetchUnchanged /\ pageUnchanged
    /\ UNCHANGED <<proxyTests, nav, navCloseCalls, field, submitted,
                   pageContent, dom, screenshots, urls, navOutcome>>

\* numTabs = Math.random() < 0.7 ? 1 : 2
MaxTabs == 2

\* Lines 345-364, simulateRandomTabs: most often nothing is opened; else a
\* tab is created in the context of the page and its navigation is started.
\* Everything from page.context() on runs inside try/catch.
NavTabs ==
    /\ pc = "nav_tabs"
    /\ \/ /\ tabs = <<>>
          /\ pc' = "nav_home"
          /\ tabs' = tabs
          /\ swallowed' = "none"
       \/ /\ tabs' = Append(tabs, "loading")
          /\ pc' = "nav_tab_load"
          /\ swallowed' = "none"
       \/ /\ tabs' = tabs
          /\ pc' = "nav_home"
          /\ swallowed' = "tabs"
    /\ inputsUnchanged /\ sessionUnchanged /\ fetchUnchanged
    /\ UNCHANGED <<timer, present, searchBox, error>>
    /\ UNCHANGED <<proxyTests, nav, navCloseCalls, field, submitted,
                   pageContent, dom, screenshots, urls, navOutcome>>

\* Lines 367-378: await newPage.goto(randomSite, {timeout: 15000}) and the
\* pause after it; then the next tab, or the setTimeout that will close the
\* tabs. A navigation that fails is caught: no timer is set.
NavTabLoad ==
    /\ pc = "nav_tab_load"
    /\ tabs' = [tabs EXCEPT ![Len(tabs)] = "open"]
    /\ \/ /\ Len(tabs) < MaxTabs
          /\ pc' = "nav_tabs"
          /\ timer' = timer
          /\ swallowed' = "none"
       \/ /\ pc' = "nav_home"
          /\ timer' = TRUE
          /\ swallowed' = "none"
       \/ /\ pc' = "nav_home"
          /\ timer' = timer
          /\ swallowed' = "tabs"
    /\ inputsUnchanged /\ sessionUnchanged /\ fetchUnchanged
    /\ UNCHANGED <<present, searchBox, error>>
    /\ UNCHANGED <<proxyTests, nav, navCloseCalls, field, submitted,
                   pageContent, dom, screenshots, urls, navOutcome>>

\* Lines 372-378: the timer fires while the main flow goes on; each tab is
\* closed inside its own try/catch: the tabs are gone, or a close() that
\* rejected leaves them open.
TabsTimer ==
    /\ timer
    /\ timer' = FALSE
    /\ \/ tabs' = <<>>
       \/ tabs' = tabs
    /\ inputsUnchanged /\ sessionUnchanged /\ fetchUnchanged
    /\ UNCHANGED <<pc, swallowed, present, searchBox, error>>
    /\ UNCHANGED <<proxyTests, nav, navCloseCalls, field, submitted,
                   pageContent, dom, screenshots, urls, navOutcome>>

\* Search selectors the home page is served with: none, or the third and
\* the fifth.
HomePages == {{}, {3, 5}}

\* Lines 538-546: page.goto('https://www.google.com') and the settle delay.
\* The home page shows its search field with whatever it holds.
NavHome ==
    /\ pc = "nav_home"
    /\ \/ /\ \E f \in InitialFields : field' = f
          /\ \E sel \in HomePages : present' = sel
          /\ pc' = "nav_mouse"
          /\ error' = error
       \/ /\ \E e \in {"goto", "timeout"} : NavThrow(e)
          /\ UNCHANGED <<field, present>>
    /\ swallowed' = "none"
    /\ inputsUnchanged /\ sessionUnchanged /\ fetchUnchanged
    /\ UNCHANGED <<tabs, timer, searchBox>>
    /\ UNCHANGED <<proxyTests, nav, navCloseCalls, submitted, pageContent,
                   dom, screenshots, urls, navOutcome>>

\* Line 549, simulateMouseMovements: three pointer moves inside try/catch.
NavMouse ==
    /\ pc = "nav_mouse"
    /\ pc' = "nav_cookies"
    /\ \/ swallowed' = "none"
       \/ swallowed' = "mouse"
    /\ inputsUnchanged /\ sessionUnchanged /\ fetchUnchanged
    /\ UNCHANGED <<tabs, timer, present, searchBox, error>>
    /\ UNCHANGED <<proxyTests, nav, navCloseCalls, field, submitted,
                   pageContent, dom, screenshots, urls, navOutcome>>

\* The consent dialog without its catch clauses: a click that throws is
\* raised to the catch clause of the run.
NavCookies_Unguarded ==
    /\ pc = "nav_cookies"
    /\ \/ pc' = "nav_searchbox" /\ error' = error
       \/ NavThrow("cookies")
    /\ swallowed' = "none"
    /\ inputsUnchanged /\ sessionUnchanged /\ fetchUnchanged
    /\ UNCHANGED <<tabs, timer, present, searchBox>>
    /\ UNCHANGED <<proxyTests, nav, navCloseCalls, field, submitted,
                   pageContent, dom, screenshots, urls, navOutcome>>

\* Lines 551-592: the consent dialog. No button appears, or one is clicked,
\* or the click (or the pointer move to it) throws: the inner catch goes on
\* to the next selector, the outer catch ignores anything else.
NavCookies ==
    /\ pc = "nav_cookies"
    /\ pc' = "nav_searchbox"
    /\ \/ swallowed' = "none"
       \/ swallowed' = "cookies"
    /\ inputsUnchanged /\ sessionUnchanged /\ fetchUnchanged
    /\ UNCHANGED <<tabs, timer, present, searchBox, error>>
    /\ UNCHANGED <<proxyTests, nav, navCloseCalls, field, submitted,
                   pageContent, dom, screenshots, urls, navOutcome>>

NumSearchSelectors == 5

\* The cascade that keeps the selector it tried last.
RECURSIVE SearchCascadeFrom_KeepsLast(_, _)
SearchCascadeFrom_KeepsLast(sel, k) ==
    IF k \in sel \/ k >= NumSearchSelectors THEN k
    ELSE SearchCascadeFrom_KeepsLast(sel, k + 1)

\* Lines 608-617: the selectors are waited for in order; searchBox is the
\* first that appears on a page showing the selectors sel, or stays null.
RECURSIVE SearchCascadeFrom(_, _)
SearchCascadeFrom(sel, k) ==
    IF k > NumSearchSelectors THEN 0
    ELSE IF k \in sel THEN k
    ELSE SearchCascadeFrom(sel, k + 1)

\* Lines 595-630: the delay, the cascade, if (!searchBox) throw, and the
\* pointer move to the field that was found.
NavSearchBox ==
    /\ pc = "nav_searchbox"
    /\ searchBox' = SearchCascadeFrom(present, 1)
    /\ IF searchBox' = 0
       THEN NavThrow("searchbox")
       ELSE \/ pc' = "nav_type" /\ error' = error
            \/ NavThrow("boundingbox")
    /\ swallowed' = "none"
    /\ inputsUnchanged /\ sessionUnchanged /\ fetchUnchanged
    /\ UNCHANGED <<tabs, timer, present>>
    /\ UNCHANGED <<proxyTests, nav, navCloseCalls, field, submitted,
                   pageContent, dom, screenshots, urls, navOutcome>>

\* Line 633: await typeHumanLike(page, searchBox, query)
NavType ==
    /\ pc = "nav_type"
    /\ \/ /\ \E misspell \in BOOLEAN, randomIndex \in 0..(Len(query) - 1),
                correct \in BOOLEAN :
                field' = typeHumanLike(field, query, misspell, randomIndex,
                                       correct)
          /\ pc' = "nav_submit"
          /\ error' = error
       \/ /\ NavThrow("type")
          /\ field' = field
    /\ inputsUnchanged /\ sessionUnchanged /\ fetchUnchanged /\ pageUnchanged
    /\ UNCHANGED <<proxyTests, nav, navCloseCalls, submitted, pageContent,
                   dom, screenshots, urls, navOutcome>>

\* Lines 637-648: await page.keyboard.press('Enter') submits what the field
\* holds and starts the navigation to the results page; only then is
\* page.waitForNavigation called, and it waits for a navigation that
\* happens after the call. The results page arrives after the call (the
\* wait ends, the delay follows), or it arrived between the key press and
\* the call (the page is loaded and the wait times out), or it never
\* arrives (the wait times out).
NavSubmit ==
    /\ pc = "nav_submit"
    /\ submitted' = field.text
    /\ field' = EmptyField
    /\ \/ /\ \E served \in ServedPages :
                /\ pageContent' = served.content
                /\ dom' = served.dom
          /\ pc' = "nav_scroll"
          /\ error' = error
       \/ /\ \E served \in ServedPages :
                /\ pageContent' = served.content
                /\ dom' = served.dom
          /\ NavThrow("navigation")
       \/ /\ NavThrow("navigation")
          /\ UNCHANGED <<pageContent, dom>>
    /\ swallowed' = "none"
    /\ inputsUnchanged /\ sessionUnchanged /\ fetchUnchanged
    /\ UNCHANGED <<tabs, timer, present, searchBox>>
    /\ UNCHANGED <<proxyTests, nav, navCloseCalls, screenshots, urls,
                   navOutcome>>

\* The scroll step of a run that goes on to the extraction without the
\* challenge check.
NavScroll_SkipsCheck ==
    /\ pc = "nav_scroll"
    /\ pc' = "nav_extract"
    /\ \/ swallowed' = "none"
       \/ swallowed' = "scroll"
    /\ inputsUnchanged /\ sessionUnchanged /\ fetchUnchanged
    /\ UNCHANGED <<tabs, timer, present, searchBox, error>>
    /\ UNCHANGED <<proxyTests, nav, navCloseCalls, field, submitted,
                   pageContent, dom, screenshots, urls, navOutcome>>

\* Line 651, simulateNaturalScroll: every step runs inside try/catch.
NavScroll ==
    /\ pc = "nav_scroll"
    /\ pc' = "nav_challenge"
    /\ \/ swallowed' = "none"
       \/ swallowed' = "scroll"
    /\ inputsUnchanged /\ sessionUnchanged /\ fetchUnchanged
    /\ UNCHANGED <<tabs, timer, present, searchBox, error>>
    /\ UNCHANGED <<proxyTests, nav, navCloseCalls, field, submitted,
                   pageContent, dom, screenshots, urls, navOutcome>>

\* Lines 654-659: the challenge check. The screenshot is awaited before the
\* challenge error is thrown, so a failing screenshot throws its own error.
NavChallengeCheck ==
    /\ pc = "nav_challenge"
    /\ \/ /\ NavThrow("content")
          /\ screenshots' = screenshots
       \/ /\ ChallengeDetected(pageContent)
          /\ \/ /\ screenshots' = screenshots \cup {"recaptcha_detected.png"}
                /\ NavThrow("challenge")
             \/ /\ screenshots' = screenshots
                /\ NavThrow("screenshot")
       \/ /\ ~ChallengeDetected(pageContent)
          /\ pc' = "nav_extract"
          /\ UNCHANGED <<error, screenshots>>
    /\ swallowed' = "none"
    /\ inputsUnchanged /\ sessionUnchanged /\ fetchUnchanged
    /\ UNCHANGED <<tabs, timer, present, searchBox>>
    /\ UNCHANGED <<proxyTests, nav, navCloseCalls, field, submitted,
                   pageContent, dom, urls, navOutcome>>

\* Lines 662-717: the URL list is computed in the page; an empty list only
\* triggers the diagnostics, and the list is returned.
NavExtract ==
    /\ pc = "nav_extract"
    /\ \/ /\ NavThrow("evaluate")
          /\ urls' = urls
       \/ /\ urls' = ExtractUrls(dom, maxResults)
          /\ pc' = IF urls' = <<>> THEN "nav_diagnostics" ELSE "nav_finally"
          /\ error' = error
    /\ inputsUnchanged /\ sessionUnchanged /\ fetchUnchanged /\ pageUnchanged
    /\ UNCHANGED <<proxyTests, nav, navCloseCalls, field, submitted,
                   pageContent, dom, screenshots, navOutcome>>

\* The diagnostics without their try/catch: a screenshot that fails is
\* raised to the catch clause of the run.
NavEmptyDiagnostics_Unguarded ==
    /\ pc = "nav_diagnostics"
    /\ \/ /\ screenshots' = screenshots \cup {"debug_google_results.png"}
          /\ pc' = "nav_finally"
          /\ error' = error
       \/ /\ screenshots' = screenshots
          /\ NavThrow("screenshot")
    /\ inputsUnchanged /\ sessionUnchanged /\ fetchUnchanged /\ pageUnchanged
    /\ UNCHANGED <<proxyTests, nav, navCloseCalls, field, submitted,
                   pageContent, dom, urls, navOutcome>>

\* Lines 698-710: screenshot and HTML dump inside their own try/catch.
NavEmptyDiagnostics ==
    /\ pc = "nav_diagnostics"
    /\ \/ screenshots' = screenshots \cup {"debug_google_results.png"}
       \/ screenshots' = screenshots
    /\ pc' = "nav_finally"
    /\ inputsUnchanged /\ sessionUnchanged /\ fetchUnchanged /\ pageUnchanged
    /\ UNCHANGED <<proxyTests, nav, navCloseCalls, field, submitted,
                   pageContent, dom, urls, error, navOutcome>>

\* Lines 719-735: the catch clause logs and rethrows.
NavCatch ==
    /\ pc = "nav_catch"
    /\ pc' = "nav_finally"
    /\ inputsUnchanged /\ sessionUnchanged /\ fetchUnchanged /\ discoveryUnchanged
    /\ error' = error

\* A finally clause that closes the page and the context and leaves the
\* browser running.
NavNextToClose_LeavesBrowser(h, calls) ==
    IF h.page # "null" /\ calls.page = 0 THEN "page"
    ELSE IF h.context # "null" /\ calls.context = 0 THEN "context"
    ELSE "none"

\* The handle the finally clause closes next: page, then context, then
\* browser, each only when it was assigned.
NavNextToClose(h, calls) ==
    IF h.page # "null" /\ calls.page = 0 THEN "page"
    ELSE IF h.context # "null" /\ calls.context = 0 THEN "context"
    ELSE IF h.browser # "null" /\ calls.browser = 0 THEN "browser"
    ELSE "none"

\* Lines 736-740: if (page) await page.close(); if (context) await
\* context.close(); if (browser) await browser.close(). A close() that
\* rejects leaves the finally clause, and its error replaces the outcome.
\* Closing the context closes the distraction tabs still open in it.
NavFinally ==
    /\ pc = "nav_finally"
    /\ LET h == NavNextToClose(nav, navCloseCalls)
       IN  IF h = "none"
           THEN /\ pc' = "nav_exit"
                /\ UNCHANGED <<nav, navCloseCalls, tabs, error>>
           ELSE /\ navCloseCalls' = [navCloseCalls EXCEPT ![h] = @ + 1]
                /\ \/ /\ nav' = [nav EXCEPT ![h] = "closed"]
                      /\ tabs' = IF h = "context" THEN <<>> ELSE tabs
                      /\ pc' = "nav_finally"
                      /\ error' = error
                   \/ /\ UNCHANGED <<nav, tabs>>
                      /\ pc' = "nav_exit"
                      /\ error' = "close"
    /\ inputsUnchanged /\ sessionUnchanged /\ fetchUnchanged
    /\ UNCHANGED <<timer, swallowed, present, searchBox>>
    /\ UNCHANGED <<proxyTests, field, submitted, pageContent, dom,
                   screenshots, urls, navOutcome>>

\* The promise of getGoogleResultsWithHumanSimulation settles: the caller
\* gets the URL list or the error. The page of the call and what it showed
\* (its field, its content, its anchors, its tabs) are gone; the timer of
\* the tabs finds them closed.
NavExit ==
    /\ pc = "nav_exit"
    /\ navOutcome' = IF error = "none" THEN "urls" ELSE "error"
    /\ pc' = "ext_discovered"
    /\ field' = EmptyField
    /\ submitted' = <<>>
    /\ pageContent' = <<>>
    /\ dom' = <<>>
    /\ tabs' = <<>>
    /\ timer' = FALSE
    /\ swallowed' = "none"
    /\ present' = {}
    /\ searchBox' = 0
    /\ inputsUnchanged /\ sessionUnchanged /\ fetchUnchanged
    /\ UNCHANGED <<proxyTests, nav, navCloseCalls, screenshots, urls, error>>

(***************************************************************************)
(* fetchPageContentWithPlaywright                                          *)
(***************************************************************************)
maxRetries == 3
retryDelay == 1000

RECURSIVE Pow2(_)
Pow2(n) == IF n = 0 THEN 1 ELSE 2 * Pow2(n - 1)

\* The delay that grows by retryDelay with each retry.
BackoffDelay_Linear(retryCount) == retryDelay * (retryCount + 1)

\* CONFIG.fetch.retryDelay * Math.pow(2, retryCount)
BackoffDelay(retryCount) == retryDelay * Pow2(retryCount)

ErrorName(e) ==
    CASE e = "abort" -> "AbortError"
      [] e \in {"short", "econnreset"} -> "Error"
      [] OTHER -> "TimeoutError"

\* No error raised by the browser library carries a status property.
ErrorStatus(e) == 0

FetchErrorMessage(e) ==
    CASE e = "short" -> <<"C","o","n","t","e","n","u"," ","H","T","M","L"," ","t","r","o","p"," ","c","o","u","r","t"," ","o","u"," ","v","i","d","e">>
      [] e = "econnreset" -> <<"r","e","a","d"," ","E","C","O","N","N","R","E","S","E","T">>
      [] e = "abort" -> <<"T","h","e"," ","o","p","e","r","a","t","i","o","n"," ","w","a","s"," ","a","b","o","r","t","e","d">>
      [] OTHER -> ErrorMessage(e)

retryableErrors ==
    { <<"A","b","o","r","t","E","r","r","o","r">>,
      <<"T","i","m","e","o","u","t","E","r","r","o","r">>,
      <<"E","C","O","N","N","R","E","S","E","T">>,
      <<"E","C","O","N","N","R","E","F","U","S","E","D">>,
      <<"E","T","I","M","E","D","O","U","T">>,
      <<"E","N","O","T","F","O","U","N","D">>,
      <<"E","N","E","T","U","N","R","E","A","C","H">> }

retryableStatus == {408, 429, 500, 502, 503, 504}

isRetryableError(e) ==
    \/ \E code \in retryableErrors : Includes(FetchErrorMessage(e), code)
    \/ ErrorName(e) = "AbortError"
    \/ (ErrorStatus(e) # 0 /\ ErrorStatus(e) \in retryableStatus)

\* Errors the browser library raises while it starts a browser, a context
\* or a page, and while it navigates and reads the page: the network error
\* codes isRetryableError looks for come with navigation.
StartErrors == {"timeout"}
ThrownErrors == {"econnreset", "timeout"}

\* HTTP statuses a fetched URL answers with (0: page.goto gave no response).
Statuses == {0, 200, 404, 503}

\* response.ok() true for every response the server gave.
ResponseOk_AnyResponse(status) == status >= 200 /\ status <= 599

\* response.ok()
ResponseOk(status) == status >= 200 /\ status <= 299

NewFrame ==
    [pc |-> "launch", browser |-> "null", context |-> "null",
     page |-> "null", status |-> 0, ret |-> [kind |-> "none"],
     thrown |-> "none", delay |-> 0]

\* One attempt to fetch urls[idx], as it ended: the method used, the HTTP
\* status answered (0: none) and the error raised ("none": none).
Attempt(status, e) ==
    [method |-> "playwright", status |-> status, error |-> e]

\* html: null in an outcome record (html is else the length of the text).
HtmlNull == -1

\* {success: false, html: null, error: ..., method: 'playwright'}
FailureOutcome(e) ==
    [kind |-> "outcome", success |-> FALSE, html |-> HtmlNull, status |-> 0,
     error |-> e, method |-> "playwright"]

\* {success: true, html, title, status, method: 'playwright'}
SuccessOutcome(status, len) ==
    [kind |-> "outcome", success |-> TRUE, html |-> len, status |-> status,
     error |-> "none", method |-> "playwright"]

\* Entering the finally clause: with nothing to close it is left at once.
EnterFinally(f) ==
    IF f.page = "open" \/ f.context = "open" \/ f.browser = "open"
    THEN [f EXCEPT !.pc = "finally"]
    ELSE [f EXCEPT !.pc = "done"]

\* The catch clause without the ceiling on retryCount: a retryable error is
\* retried whatever the number of retries made.
CatchError_NoCeiling(f, e, retryCount) ==
    IF isRetryableError(e)
    THEN [f EXCEPT !.pc = "backoff", !.status = 0,
                   !.delay = BackoffDelay(retryCount)]
    ELSE EnterFinally([f EXCEPT !.ret = FailureOutcome(e), !.status = 0])

\* The catch clause for error e of the activation with this retryCount:
\* a retryable error below the ceiling waits for the backoff delay, any
\* other is the returned failure.
CatchError(f, e, retryCount) ==
    IF retryCount < maxRetries /\ isRetryableError(e)
    THEN [f EXCEPT !.pc = "backoff", !.status = 0,
                   !.delay = BackoffDelay(retryCount)]
    ELSE EnterFinally([f EXCEPT !.ret = FailureOutcome(e), !.status = 0])

\* The promise of activation k taken as settled when the activation itself
\* is over, without waiting for the activation it returned.
Settled_OuterOnly(fs, k) ==
    IF fs[k].pc = "threw" THEN [kind |-> "rejected", error |-> fs[k].thrown]
    ELSE IF fs[k].pc # "done" THEN [kind |-> "pending"]
    ELSE IF fs[k].ret.kind = "inner" THEN FailureOutcome("pending")
    ELSE fs[k].ret

\* What the promise of activation k has settled to: pending, rejected (its
\* finally clause threw), or the outcome record, its own or the one of the
\* activation it returned.
RECURSIVE Settled(_, _)
Settled(fs, k) ==
    IF fs[k].pc = "threw" THEN [kind |-> "rejected", error |-> fs[k].thrown]
    ELSE IF fs[k].pc # "done" THEN [kind |-> "pending"]
    ELSE IF fs[k].ret.kind = "inner" THEN Settled(fs, k + 1)
    ELSE fs[k].ret

\* The main flow awaits the fetch of urls[idx]. Once the awaited promise has
\* settled the main flow resumes before any other event is handled.
Awaiting ==
    /\ pc = "fetch_await"
    /\ Settled(frames, 1).kind = "pending"

fetchFrameUnchanged ==
    /\ inputsUnchanged /\ sessionUnchanged /\ discoveryUnchanged
    /\ UNCHANGED <<pc, error, idx, results, report, exitCode>>

\* Line 761: let content = await fetchPageContentWithPlaywright(url)
FetchCall ==
    /\ pc = "fetch_call"
    /\ frames' = <<NewFrame>>
    /\ attempts' = <<>>
    /\ pc' = "fetch_await"
    /\ inputsUnchanged /\ sessionUnchanged /\ discoveryUnchanged
    /\ UNCHANGED <<error, idx, results, report, exitCode>>

\* browser = await chromium.launch(...)
FetchLaunch ==
    /\ Awaiting
    /\ \E k \in 1..Len(frames) :
          /\ frames[k].pc = "launch"
          /\ \/ /\ frames' = [frames EXCEPT ![k].browser = "open",
                                            ![k].pc = "context"]
                /\ attempts' = attempts
             \/ \E e \in StartErrors :
                   /\ frames' = [frames EXCEPT
                                    ![k] = CatchError(@, e, k - 1)]
                   /\ attempts' = Append(attempts, Attempt(0, e))
    /\ fetchFrameUnchanged

\* context = await browser.newContext(...)
FetchNewContext ==
    /\ Awaiting
    /\ \E k \in 1..Len(frames) :
          /\ frames[k].pc = "context"
          /\ \/ /\ frames' = [frames EXCEPT ![k].context = "open",
                                            ![k].pc = "page"]
                /\ attempts' = attempts
             \/ \E e \in StartErrors :
                   /\ frames' = [frames EXCEPT
                                    ![k] = CatchError(@, e, k - 1)]
                   /\ attempts' = Append(attempts, Attempt(0, e))
    /\ fetchFrameUnchanged

\* await context.route(...); page = await context.newPage()
FetchNewPage ==
    /\ Awaiting
    /\ \E k \in 1..Len(frames) :
          /\ frames[k].pc = "page"
          /\ \/ /\ frames' = [frames EXCEPT ![k].page = "open",
                                            ![k].pc = "goto"]
                /\ attempts' = attempts
             \/ \E e \in StartErrors :
                   /\ frames' = [frames EXCEPT
                                    ![k] = CatchError(@, e, k - 1)]
                   /\ attempts' = Append(attempts, Attempt(0, e))
    /\ fetchFrameUnchanged

\* const response = await page.goto(url, ...): an OK response goes on to
\* read the page; no response or an HTTP error returns the failure record
\* {success:false, html:null, method:'playwright'} without an exception.
FetchGoto ==
    /\ Awaiting
    /\ \E k \in 1..Len(frames) :
          /\ frames[k].pc = "goto"
          /\ \/ \E status \in Statuses :
                   IF status # 0 /\ ResponseOk(status)
                   THEN /\ frames' = [frames EXCEPT ![k].status = status,
                                                    ![k].pc = "read"]
                        /\ attempts' = attempts
                   ELSE /\ frames' = [frames EXCEPT
                               ![k] = EnterFinally(
                                   [@ EXCEPT !.ret = FailureOutcome("none")])]
                        /\ attempts' = Append(attempts, Attempt(status, "none"))
             \/ \E e \in ThrownErrors :
                   /\ frames' = [frames EXCEPT
                                    ![k] = CatchError(@, e, k - 1)]
                   /\ attempts' = Append(attempts, Attempt(0, e))
    /\ fetchFrameUnchanged

MinHtmlLength == 100

\* Lengths of the HTML a fetched page renders to.
HtmlLengths == {0, 99, 100}

\* waitForLoadState('networkidle'), page.content(), page.title(), and the
\* length check: too short a page throws inside the try block.
FetchRead ==
    /\ Awaiting
    /\ \E k \in 1..Len(frames) :
          /\ frames[k].pc = "read"
          /\ \/ \E len \in HtmlLengths :
                   IF len < MinHtmlLength
                   THEN /\ frames' = [frames EXCEPT
                                  ![k] = CatchError(@, "short", k - 1)]
                        /\ attempts' = Append(attempts,
                               Attempt(frames[k].status, "short"))
                   ELSE /\ frames' = [frames EXCEPT
                               ![k] = EnterFinally(
                                   [@ EXCEPT !.ret = SuccessOutcome(frames[k].status, len)])]
                        /\ attempts' = Append(attempts,
                               Attempt(frames[k].status, "none"))
             \/ \E e \in ThrownErrors :
                   /\ frames' = [frames EXCEPT
                                    ![k] = CatchError(@, e, k - 1)]
                   /\ attempts' = Append(attempts, Attempt(0, e))
    /\ fetchFrameUnchanged

\* The activations still closing their browser, context or page.
Closing(fs) == Cardinality({k \in 1..Len(fs) : fs[k].pc = "finally"})

\* The backoff delay is over: return fetchPageContentWithPlaywright(url,
\* retryCount + 1). The new activation starts; this one enters its finally
\* clause and will deliver what the new one delivers.
FetchRetry ==
    /\ Awaiting
    /\ Closing(frames) < MaxClosing
    /\ \E k \in 1..Len(frames) :
          /\ frames[k].pc = "backoff"
          /\ frames' = Append([frames EXCEPT
                                  ![k] = EnterFinally([@ EXCEPT !.ret = [kind |-> "inner"]])],
                              NewFrame)
    /\ attempts' = attempts
    /\ fetchFrameUnchanged

FrameNextToClose(f) ==
    IF f.page = "open" THEN "page"
    ELSE IF f.context = "open" THEN "context"
    ELSE "browser"

\* finally: if (page) await page.close(); if (context) await
\* context.close(); if (browser) await browser.close()
FetchFinally ==
    /\ Awaiting
    /\ \E k \in 1..Len(frames) :
          /\ frames[k].pc = "finally"
          /\ LET h == FrameNextToClose(frames[k])
             IN  \/ frames' = [frames EXCEPT
                       ![k] = EnterFinally([@ EXCEPT ![h] = "closed"])]
                 \/ frames' = [frames EXCEPT ![k].pc = "threw",
                                              ![k].thrown = "close"]
    /\ attempts' = attempts
    /\ fetchFrameUnchanged

(***************************************************************************)
(* extractWithHumanSimulation and main                                     *)
(***************************************************************************)
\* The discovery result taken without the test of its length: over an empty
\* list the loop has nothing to do and the report is written.
ExtDiscovered_NoLengthTest ==
    /\ pc = "ext_discovered"
    /\ IF navOutcome = "error"
       THEN pc' = "ext_catch" /\ UNCHANGED <<error, idx>>
       ELSE IF Len(urls) = 0
       THEN pc' = "ext_write" /\ UNCHANGED <<error, idx>>
       ELSE pc' = "fetch_call" /\ idx' = 0 /\ error' = error
    /\ inputsUnchanged /\ sessionUnchanged /\ discoveryUnchanged
    /\ UNCHANGED <<frames, attempts, results, report, exitCode>>

\* Line 759: the discovery result; an empty list is an error.
ExtDiscovered ==
    /\ pc = "ext_discovered"
    /\ IF navOutcome = "error"
       THEN pc' = "ext_catch" /\ UNCHANGED <<error, idx>>
       ELSE IF Len(urls) = 0
       THEN pc' = "ext_catch" /\ error' = "noresult" /\ idx' = idx
       ELSE pc' = "fetch_call" /\ idx' = 0 /\ error' = error
    /\ inputsUnchanged /\ sessionUnchanged /\ discoveryUnchanged
    /\ UNCHANGED <<frames, attempts, results, report, exitCode>>

\* The entry numbered with the loop index itself.
ResultEntry_ZeroBased(i, url, content) ==
    [position |-> i, url |-> url, success |-> content.success,
     method |-> content.method, status |-> content.status,
     error |-> content.error, html |-> content.html,
     htmlLength |-> IF content.html = HtmlNull THEN 0 ELSE content.html]

\* The entry pushed for urls[i] with the fetch outcome content.
ResultEntry(i, url, content) ==
    [position |-> i + 1, url |-> url, success |-> content.success,
     method |-> content.method, status |-> content.status,
     error |-> content.error, html |-> content.html,
     htmlLength |-> IF content.html = HtmlNull THEN 0 ELSE content.html]

\* Lines 761-769: the awaited fetch settles. An outcome is pushed, and the
\* loop waits before the next URL. A rejection leaves the loop through the
\* catch clauses of extractWithHumanSimulation and of main, which run
\* without awaiting anything and end in process.exit(1): the fetch
\* activations still running end with the process.
ExtFetched ==
    /\ pc = "fetch_await"
    /\ Settled(frames, 1).kind # "pending"
    /\ IF Settled(frames, 1).kind = "rejected"
       THEN /\ error' = Settled(frames, 1).error
            /\ pc' = "exited"
            /\ exitCode' = 1
            /\ emitted' = Emit("job_error")
            /\ frames' = <<>>
            /\ results' = results
       ELSE /\ results' = Append(results,
                            ResultEntry(idx, urls[idx + 1], Settled(frames, 1)))
            /\ pc' = IF idx < Len(urls) - 1 THEN "ext_delay" ELSE "ext_write"
            /\ UNCHANGED <<error, exitCode, frames, emitted>>
    /\ optionsUnchanged /\ sessionUnchanged /\ discoveryUnchanged
    /\ UNCHANGED <<idx, attempts, report>>

\* The delay between two pages, then i++.
ExtNextUrl ==
    /\ pc = "ext_delay"
    /\ idx' = idx + 1
    /\ pc' = "fetch_call"
    /\ inputsUnchanged /\ sessionUnchanged /\ discoveryUnchanged
    /\ UNCHANGED <<error, frames, attempts, results, report, exitCode>>

CountWhere(seq, Test(_)) == Len(SelectSeq(seq, Test))

\* The report whose failed count is the number of entries with an error
\* description.
BuildReport_FailedByError(res) ==
    [success |-> TRUE,
     query |-> query,
     organicResults |-> res,
     stats |-> [total |-> Len(res),
                successful |-> CountWhere(res, LAMBDA r : r.success),
                failed |-> CountWhere(res, LAMBDA r : r.error # "none"),
                playwrightMethod |->
                    CountWhere(res, LAMBDA r : r.method = "playwright")],
     config |-> [maxRetries |-> maxRetries,
                 userAgent |-> CONFIG_context_userAgent,
                 maxResults |-> maxResults,
                 stealthMode |-> stealthMode,
                 headless |-> headless]]

\* Lines 771-773: the statistics and the report.
BuildReport(res) ==
    [success |-> TRUE,
     query |-> query,
     organicResults |-> res,
     stats |-> [total |-> Len(res),
                successful |-> CountWhere(res, LAMBDA r : r.success),
                failed |-> CountWhere(res, LAMBDA r : ~r.success),
                playwrightMethod |->
                    CountWhere(res, LAMBDA r : r.method = "playwright")],
     config |-> [maxRetries |-> maxRetries,
                 userAgent |-> CONFIG_context_userAgent,
                 maxResults |-> maxResults,
                 stealthMode |-> stealthMode,
                 headless |-> headless]]

\* Line 775: await fs.promises.writeFile(outputFile, ...)
ExtWriteReport ==
    /\ pc = "ext_write"
    /\ \/ /\ report' = BuildReport(results)
          /\ pc' = "main_done"
          /\ error' = error
       \/ /\ report' = report
          /\ pc' = "ext_catch"
          /\ error' = "write"
    /\ inputsUnchanged /\ sessionUnchanged /\ discoveryUnchanged
    /\ UNCHANGED <<idx, frames, attempts, results, exitCode>>

\* Line 777: catch (error) { logError(...); throw error; }
ExtCatch ==
    /\ pc = "ext_catch"
    /\ pc' = "main_catch"
    /\ inputsUnchanged /\ sessionUnchanged /\ discoveryUnchanged
    /\ UNCHANGED <<error, idx, frames, attempts, results, report, exitCode>>

\* main, after extractWithHumanSimulation returned: process.exit(0)
MainDone ==
    /\ pc = "main_done"
    /\ emitted' = Emit("job_complete")
    /\ exitCode' = 0
    /\ pc' = "exited"
    /\ optionsUnchanged /\ sessionUnchanged /\ discoveryUnchanged
    /\ UNCHANGED <<error, idx, frames, attempts, results, report>>

\* The catch clause of main that exits without telling the socket.
MainCatch_Silent ==
    /\ pc = "main_catch"
    /\ emitted' = emitted
    /\ exitCode' = 1
    /\ pc' = "exited"
    /\ optionsUnchanged /\ sessionUnchanged /\ discoveryUnchanged
    /\ UNCHANGED <<error, idx, frames, attempts, results, report>>

\* main, catch: the hints when the error names a challenge, process.exit(1)
MainCatch ==
    /\ pc = "main_catch"
    /\ emitted' = Emit("job_error")
    /\ exitCode' = 1
    /\ pc' = "exited"
    /\ optionsUnchanged /\ sessionUnchanged /\ discoveryUnchanged
    /\ UNCHANGED <<error, idx, frames, attempts, results, report>>

(***************************************************************************)
(* Specifications.                                                         *)
(***************************************************************************)
(***************************************************************************)
(* parseArguments                                                          *)
(***************************************************************************)
T_q == <<"-","q">>
T_n == <<"-","n">>
T_h == <<"-","h">>
T_no_stealth == <<"-","-","n","o","-","s","t","e","a","l","t","h">>

\* case '--query': case '-q':
QueryOptions == {<<"-","-","q","u","e","r","y">>, T_q}

\* case '--max-results': case '-n':
MaxResultsOptions ==
    {<<"-","-","m","a","x","-","r","e","s","u","l","t","s">>, T_n}

\* --output and -o take the next argument as their value.
ValueOptions ==
    {<<"-","-","o","u","t","p","u","t">>, <<"-","o">>}

\* case '--ws': socket = io(args[++i])
T_ws == <<"-","-","w","s">>

\* case '--verbose': case '-v':
FlagOptions == {<<"-","-","v","e","r","b","o","s","e">>, <<"-","v">>}

T_headless == <<"-","-","h","e","a","d","l","e","s","s">>

\* args.includes('--help') || args.includes('-h')
HelpOptions == {<<"-","-","h","e","l","p">>, T_h}

Digits == <<"0","1","2","3","4","5","6","7","8","9">>

IsDigit(c) == \E d \in 1..10 : Digits[d] = c

DigitValue(c) == (CHOOSE d \in 1..10 : Digits[d] = c) - 1

\* String.prototype.trim, on strings whose only white space is the space.
RECURSIVE Trim(_)
Trim(s) ==
    IF s = <<>> THEN s
    ELSE IF s[1] = " " THEN Trim(Tail(s))
    ELSE IF s[Len(s)] = " " THEN Trim(SubSeq(s, 1, Len(s) - 1))
    ELSE s

\* The value of the longest prefix of digits of s, after acc.
RECURSIVE DigitsPrefix(_, _)
DigitsPrefix(s, acc) ==
    IF s = <<>> \/ ~IsDigit(s[1]) THEN acc
    ELSE DigitsPrefix(Tail(s), acc * 10 + DigitValue(s[1]))

\* parseInt(s): leading white space and a sign are skipped, the digits that
\* follow are read and whatever comes after them is ignored; NaN when no
\* digit is there.
parseInt(s) ==
    LET t == Trim(s)
        negative == t # <<>> /\ t[1] = "-"
        body == IF t # <<>> /\ t[1] \in {"-", "+"} THEN Tail(t) ELSE t
    IN  IF body = <<>> \/ ~IsDigit(body[1])
        THEN [nan |-> TRUE, value |-> 0]
        ELSE [nan |-> FALSE,
              value |-> IF negative THEN 0 - DigitsPrefix(body, 0)
                        ELSE DigitsPrefix(body, 0)]

\* Lines 393-397: the options before the loop runs; headless is
\* CONFIG.browser.headless, which the loop writes; exit is the status of a
\* process.exit made while parsing (-1: none).
DefaultOptions ==
    [query |-> <<>>, maxResults |-> 3, stealthMode |-> TRUE, usage |-> FALSE,
     headless |-> headless, socket |-> socket, exit |-> -1]

\* process.exit(1), as every rejected argument ends: nothing is printed.
Exit1(o) == [o EXCEPT !.exit = 1]

\* Lines 399-411: the loop over the arguments from args[i] on, with the
\* options o read so far.
RECURSIVE ParseFrom(_, _, _)
ParseFrom(a, i, o) ==
    IF i > Len(a) THEN o
    ELSE
      CASE a[i] \in QueryOptions ->
             IF i + 1 <= Len(a)
             THEN ParseFrom(a, i + 2, [o EXCEPT !.query = a[i + 1]])
             ELSE Exit1(o)
        [] a[i] \in ValueOptions ->
             IF i + 1 <= Len(a) THEN ParseFrom(a, i + 2, o) ELSE Exit1(o)
        [] a[i] \in MaxResultsOptions ->
             IF i + 1 <= Len(a)
             THEN LET num == parseInt(a[i + 1])
                  IN  IF num.nan \/ num.value < 1 \/ num.value > 10
                      THEN Exit1(o)
                      ELSE ParseFrom(a, i + 2,
                                     [o EXCEPT !.maxResults = num.value])
             ELSE Exit1(o)
        [] a[i] = T_ws ->
             IF i + 1 <= Len(a)
             THEN ParseFrom(a, i + 2, [o EXCEPT !.socket = TRUE])
             ELSE Exit1(o)
        [] a[i] \in FlagOptions -> ParseFrom(a, i + 1, o)
        [] a[i] = T_no_stealth ->
             ParseFrom(a, i + 1, [o EXCEPT !.stealthMode = FALSE])
        [] a[i] = T_headless ->
             ParseFrom(a, i + 1, [o EXCEPT !.headless = FALSE])
        [] OTHER ->
             IF ~StartsWith(a[i], <<"-">>)
             THEN ParseFrom(a, i + 1,
                     [o EXCEPT !.query = IF o.query = <<>> THEN a[i]
                                         ELSE o.query \o <<" ">> \o a[i]])
             ELSE Exit1(o)

\* Lines 387-417: the help test, the loop, the test of the query.
parseArguments(a) ==
    IF a = <<>> \/ \E i \in 1..Len(a) : a[i] \in HelpOptions
    THEN [DefaultOptions EXCEPT !.usage = TRUE, !.exit = 0]
    ELSE LET o == ParseFrom(a, 1, DefaultOptions)
         IN  IF o.exit # -1 THEN o
             ELSE IF Trim(o.query) = <<>> THEN Exit1(o)
             ELSE [o EXCEPT !.query = Trim(o.query)]

\* Line 779: main starts with const options = parseArguments().
ParseArguments ==
    /\ pc = "parse"
    /\ LET o == parseArguments(args)
       IN  /\ usage' = o.usage
           /\ headless' = o.headless
           /\ socket' = o.socket
           /\ IF o.exit # -1
              THEN /\ pc' = "exited"
                   /\ exitCode' = o.exit
                   /\ UNCHANGED <<query, maxResults, stealthMode, emitted>>
              ELSE /\ pc' = "nav_proxy"
                   /\ emitted' = IF o.socket
                                 THEN Append(emitted, "job_start")
                                 ELSE emitted
                   /\ query' = o.query
                   /\ maxResults' = o.maxResults
                   /\ stealthMode' = o.stealthMode
                   /\ exitCode' = exitCode
    /\ discoveryUnchanged /\ sessionUnchanged
    /\ UNCHANGED <<args, rnd, OXY_USER, OXY_PASS, error, idx, frames,
                   attempts, results, report>>

\* Queries the runs of Spec are started with.
Queries == {<<"k","a">>}

NoReport == [success |-> FALSE]

InitCommon ==
    /\ OXY_USER \in BOOLEAN
    /\ OXY_PASS \in {b \in BOOLEAN : b => OXY_USER}
    /\ stealthMode \in BOOLEAN
    /\ proxyTests = [connectivity |-> FALSE, advanced |-> FALSE]
    /\ nav = NoHandles
    /\ navCloseCalls = NoCalls
    /\ tabs = <<>>
    /\ timer = FALSE
    /\ swallowed = "none"
    /\ present = {}
    /\ searchBox = 0
    /\ field = EmptyField
    /\ submitted = <<>>
    /\ pageContent = <<>>
    /\ dom = <<>>
    /\ screenshots = {}
    /\ urls = <<>>
    /\ error = "none"
    /\ navOutcome = "none"
    /\ usage = FALSE
    /\ headless = FALSE
    /\ launches = <<>>
    /\ fingerprints = <<>>
    /\ initScripts = 0
    /\ contextConfigs = <<>>
    /\ injected = <<>>
    /\ socket \in BOOLEAN
    /\ idx = 0
    /\ frames = <<>>
    /\ attempts = <<>>
    /\ results = <<>>
    /\ report = NoReport
    /\ exitCode = -1

\* A run of the program with valid arguments, from the point where they
\* have been parsed.
Init ==
    /\ InitCommon
    /\ ~socket /\ emitted = <<>>
    /\ pc = "nav_proxy"
    /\ args = <<>>
    /\ rnd = 2
    /\ query \in Queries
    /\ maxResults \in 1..MaxResultsArg

Next ==
    \/ NavProxyGate \/ NavLaunch \/ NavNewContext \/ NavNewPage
    \/ NavStealth \/ NavTabs \/ NavTabLoad \/ TabsTimer \/ NavHome
    \/ NavMouse \/ NavCookies \/ NavSearchBox \/ NavType \/ NavSubmit
    \/ NavScroll
    \/ NavChallengeCheck \/ NavExtract \/ NavEmptyDiagnostics
    \/ NavCatch \/ NavFinally \/ NavExit
    \/ ExtDiscovered \/ FetchCall \/ FetchLaunch \/ FetchNewContext
    \/ FetchNewPage \/ FetchGoto \/ FetchRead \/ FetchRetry
    \/ FetchFinally \/ ExtFetched \/ ExtNextUrl \/ ExtWriteReport
    \/ ExtCatch \/ MainDone \/ MainCatch

Spec == Init /\ [][Next]_vars

\* A run of the program under each value the random source can give to
\* the fingerprint selection, with credentials and stealth mode set.
InitFingerprint ==
    /\ InitCommon
    /\ OXY_PASS /\ stealthMode
    /\ ~socket /\ emitted = <<>>
    /\ pc = "nav_proxy"
    /\ args = <<>>
    /\ rnd \in 0..(Len(FINGERPRINT_POOL) - 1)
    /\ query \in Queries
    /\ maxResults = 2

SpecFingerprint == InitFingerprint /\ [][Next]_vars

\* A run in which no operation stays pending: every await settles (the
\* operation completes, fails or runs into its timeout) and the event loop
\* runs every continuation and timer that is ready, so a step that can be
\* taken is taken. The run is started with the proxy configured and
\* stealth on, asking for two results.
InitLive ==
    /\ InitCommon
    /\ OXY_USER /\ OXY_PASS /\ stealthMode
    /\ emitted = IF socket THEN <<"job_start">> ELSE <<>>
    /\ pc = "nav_proxy"
    /\ args = <<>>
    /\ rnd = 2
    /\ query \in Queries
    /\ maxResults = 2

SpecLive == InitLive /\ [][Next]_vars /\ WF_vars(Next)

\* Words of a command line: options, values and query words.
W_ka == <<"k","a">>
W_empty == <<>>
W_2 == <<"2">>
W_0 == <<"0">>
W_11 == <<"1","1">>
W_2x == <<"2","x">>
W_bogus == <<"-","-","x">>

ArgWords ==
    {T_q, T_n, T_h, T_no_stealth, T_headless, T_ws, W_bogus, W_ka, W_empty, W_2, W_0, W_11,
     W_2x}

\* The start of the program on every command line of at most MaxArgs
\* words: the arguments are parsed, then the proxy is probed and the
\* browser launched.
InitArgs ==
    /\ InitCommon
    /\ OXY_USER /\ OXY_PASS /\ stealthMode
    /\ ~socket /\ emitted = <<>>
    /\ pc = "parse"
    /\ rnd = 2
    /\ args \in SeqsUpTo(ArgWords, MaxArgs)
    /\ query = <<>>
    /\ maxResults = 3

NextArgs == ParseArguments \/ NavProxyGate \/ NavLaunch

SpecArgs == InitArgs /\ [][NextArgs]_vars

\* The typing step alone: every text up to MaxTextLen typed into a search
\* field on an open page, then submitted.
InitType ==
    /\ OXY_USER = FALSE
    /\ OXY_PASS = FALSE
    /\ stealthMode = TRUE
    /\ proxyTests = [connectivity |-> FALSE, advanced |-> FALSE]
    /\ nav = [browser |-> "open", context |-> "open", page |-> "open"]
    /\ navCloseCalls = NoCalls
    /\ tabs = <<>>
    /\ timer = FALSE
    /\ swallowed = "none"
    /\ present = {3, 5}
    /\ searchBox = 3
    /\ field \in InitialFields
    /\ submitted = <<>>
    /\ pageContent = <<>>
    /\ dom = <<>>
    /\ screenshots = {}
    /\ urls = <<>>
    /\ error = "none"
    /\ navOutcome = "none"
    /\ args = <<>>
    /\ usage = FALSE
    /\ headless = FALSE
    /\ rnd = 2
    /\ launches = <<[headless |-> FALSE, proxy |-> FALSE]>>
    /\ fingerprints = <<FINGERPRINT_POOL[3]>>
    /\ initScripts = 1
    /\ contextConfigs = <<contextConfig(FINGERPRINT_POOL[3])>>
    /\ injected = <<setupAdvancedStealthMode(FINGERPRINT_POOL[3])>>
    /\ socket = FALSE
    /\ emitted = <<>>
    /\ idx = 0
    /\ frames = <<>>
    /\ attempts = <<>>
    /\ results = <<>>
    /\ report = NoReport
    /\ exitCode = -1
    /\ pc = "nav_type"
    /\ query \in Texts(MaxTextLen)
    /\ maxResults = 1

NextType == NavType \/ NavSubmit

SpecType == InitType /\ [][NextType]_vars

\* The extraction step alone: every results page of up to MaxAnchors
\* anchors, for every maxResults up to MaxResultsArg.
InitExtract ==
    /\ OXY_USER = FALSE
    /\ OXY_PASS = FALSE
    /\ stealthMode = TRUE
    /\ proxyTests = [connectivity |-> FALSE, advanced |-> FALSE]
    /\ nav = [browser |-> "open", context |-> "open", page |-> "open"]
    /\ navCloseCalls = NoCalls
    /\ tabs = <<>>
    /\ timer = FALSE
    /\ swallowed = "none"
    /\ present = {3, 5}
    /\ searchBox = 3
    /\ field = [text |-> <<"k">>, selected |-> FALSE]
    /\ submitted = <<"k">>
    /\ pageContent = P_results
    /\ dom \in SeqsUpTo(Anchors, MaxAnchors)
    /\ screenshots = {}
    /\ urls = <<>>
    /\ error = "none"
    /\ navOutcome = "none"
    /\ args = <<>>
    /\ usage = FALSE
    /\ headless = FALSE
    /\ rnd = 2
    /\ launches = <<[headless |-> FALSE, proxy |-> FALSE]>>
    /\ fingerprints = <<FINGERPRINT_POOL[3]>>
    /\ initScripts = 1
    /\ contextConfigs = <<contextConfig(FINGERPRINT_POOL[3])>>
    /\ injected = <<setupAdvancedStealthMode(FINGERPRINT_POOL[3])>>
    /\ socket = FALSE
    /\ emitted = <<>>
    /\ idx = 0
    /\ frames = <<>>
    /\ attempts = <<>>
    /\ results = <<>>
    /\ report = NoReport
    /\ exitCode = -1
    /\ pc = "nav_extract"
    /\ query = <<"k">>
    /\ maxResults \in 1..MaxResultsArg

NextExtract == NavExtract \/ NavEmptyDiagnostics

SpecExtract == InitExtract /\ [][NextExtract]_vars

(***************************************************************************)
(* Properties of the discovery run.                                        *)
(***************************************************************************)
Handles == {"browser", "context", "page"}

\* C1: when the result or the error of the discovery run has reached the
\* caller, close() was called exactly once on every handle the run opened
\* and never on a handle the run did not open.
C1_ReleasedExactlyOnce ==
    navOutcome # "none" =>
        \A h \in Handles :
            navCloseCalls[h] = IF nav[h] = "null" THEN 0 ELSE 1

\* C2: a results page holding a challenge indicator makes the discovery run
\* end with an error the top level recognises as a challenge, after the
\* screenshot was written, and never with a URL list. Stated for the runs
\* in which the page content was read and the teardown raised nothing.
C2_ChallengeEndsAsChallenge ==
    (/\ pc = "nav_exit"
     /\ ChallengeDetected(pageContent)
     /\ error \notin {"content", "close"})
        => /\ PrintsChallengeHints(error)
           /\ "recaptcha_detected.png" \in screenshots

\* C3: when typeHumanLike has returned the search field holds the intended
\* text, and the text submitted by the Enter key is the intended text.
C3_TypedTextIsIntended ==
    /\ pc = "nav_submit" => field.text = query
    /\ pc = "nav_scroll" => submitted = query

EndsWith(s, suf) ==
    /\ Len(s) >= Len(suf)
    /\ SubSeq(s, Len(s) - Len(suf) + 1, Len(s)) = suf

\* The host is the domain or one of its subdomains.
HostMatches(host, domain) ==
    \/ host = domain
    \/ EndsWith(host, <<".">> \o domain)

\* The search engine's own host and the excluded hosts.
ExcludedDomains ==
    {S_google_com, S_youtube_com, S_maps_google_com, S_translate_google_com}

\* C4: the URL list of the discovery run is never longer than maxResults,
\* holds only absolute http or https URLs, and holds no URL whose host is
\* the search engine's or an excluded one.
C4_UrlListWellFormed ==
    /\ Len(urls) <= maxResults
    /\ \A k \in 1..Len(urls) :
          /\ SchemeOf(urls[k]) \in {S_http, S_https}
          /\ \A d \in ExcludedDomains :
                ~HostMatches(ToLowerCase(HostOf(urls[k])), d)

(***************************************************************************)
(* Properties of the report and of the proxy gate.                         *)
(***************************************************************************)
\* C5: a written report has one entry per discovered URL, in discovery
\* order: entry i holds the i-th URL and position i.
C5_OneEntryPerUrl ==
    report.success =>
        /\ Len(report.organicResults) = Len(urls)
        /\ \A i \in 1..Len(urls) :
              /\ report.organicResults[i].url = urls[i]
              /\ report.organicResults[i].position = i

\* A written report of two URLs, the first fetch failed, the second succeeded.
C5_Witness ==
    /\ report.success
    /\ Len(urls) = 2
    /\ ~report.organicResults[1].success
    /\ report.organicResults[2].success

\* Both probes of the proxy gate reported the proxy reachable.
ProxyValidated == proxyTests.connectivity /\ proxyTests.advanced

\* A browser was launched or a context opened, by the discovery run or by a
\* fetch.
BrowserStarted ==
    \/ nav.browser # "null"
    \/ nav.context # "null"
    \/ \E k \in 1..Len(frames) :
          frames[k].browser # "null" \/ frames[k].context # "null"

\* C6: with a proxy configured, a browser is launched or a context opened
\* only after the gate validated the proxy; a failed validation ends the
\* run with the proxy error, exit status 1, no browser and no report.
C6_ProxyValidatedBeforeLaunch ==
    buildOxylabsProxy =>
        /\ BrowserStarted => ProxyValidated
        /\ (pc # "nav_proxy" /\ ~ProxyValidated) =>
              /\ ~BrowserStarted
              /\ error = "proxy"
              /\ report = NoReport
              /\ pc = "exited" => exitCode = 1

\* With a proxy configured a fetch has launched its browser.
C6_Witness ==
    /\ buildOxylabsProxy
    /\ frames # <<>>
    /\ frames[1].browser = "open"
    /\ nav.browser = "closed"

(***************************************************************************)
(* Properties of the per-URL fetch.                                        *)
(***************************************************************************)
\* C7: a run that discovered a non-empty URL list ends with a written
\* report holding an outcome for every URL, whatever happened to the
\* fetches (a failure to write the report file itself aside).
C7_FetchFailureNeverAborts ==
    (/\ pc = "exited"
     /\ navOutcome = "urls"
     /\ urls # <<>>
     /\ error # "write")
        => /\ report.success
           /\ Len(report.organicResults) = Len(urls)
           /\ exitCode = 0

\* The attempt failed: it raised an error or got no OK response.
AttemptFailed(a) == a.error # "none" \/ ~ResponseOk(a.status)

\* C8: a browser is launched for a URL only after a lightweight fetch of
\* that URL has failed.
C8_BrowserNeverFirst ==
    \A k \in 1..Len(frames) :
        frames[k].browser # "null" =>
            \E j \in 1..Len(attempts) :
                attempts[j].method = "lightweight" /\ AttemptFailed(attempts[j])

\* The outcome of the fetch of urls[idx] has just been pushed to results.
Recorded == pc \in {"ext_delay", "ext_write"}

\* The attempt was answered with a retryable HTTP status.
RetryableAnswer(a) == a.error = "none" /\ a.status \in retryableStatus

\* C9: an answer with a retryable HTTP status is retried while the ceiling
\* allows, so it is not the recorded end of the attempts; and retryable
\* statuses followed by a 200 are recorded as a success of the lightweight
\* method after as many retries, with growing backoff delays.
C9_RetryableStatusRetried ==
    Recorded =>
        LET n == Len(attempts)
        IN  /\ n <= maxRetries => ~RetryableAnswer(attempts[n])
            /\ (/\ n >= 2
                /\ \A j \in 1..(n - 1) : RetryableAnswer(attempts[j])
                /\ attempts[n].error = "none"
                /\ attempts[n].status = 200)
                  => /\ results[idx + 1].success
                     /\ results[idx + 1].method = "lightweight"
                     /\ Len(frames) = n
                     /\ \A j \in 1..(n - 2) :
                           frames[j].delay < frames[j + 1].delay

\* The attempts made with a browser for urls[idx].
BrowserAttempts ==
    {j \in 1..Len(attempts) : attempts[j].method = "playwright"}

\* C10: when the retries of a URL are exhausted the browser was used for
\* exactly one attempt, made after the lightweight ones, and that attempt
\* gave the recorded outcome.
C10_FallbackExactlyOnce ==
    (Recorded /\ Len(attempts) > maxRetries) =>
        /\ Cardinality(BrowserAttempts) = 1
        /\ BrowserAttempts = {Len(attempts)}
        /\ results[idx + 1].method = attempts[Len(attempts)].method

(***************************************************************************)
(* Properties of the statistics.                                           *)
(***************************************************************************)
\* C11: in a written report stats.total is the number of entries, the
\* successful and the failed entries add up to it, and so do the counts per
\* method (the report counts one method, playwright).
C11_StatsConsistent ==
    report.success =>
        /\ report.stats.total = Len(report.organicResults)
        /\ report.stats.successful + report.stats.failed = report.stats.total
        /\ report.stats.playwrightMethod = report.stats.total

\* A written report counting one success and one failure.
C11_Witness ==
    /\ report.success
    /\ report.stats.successful = 1
    /\ report.stats.failed = 1

(***************************************************************************)
(* Properties of the steps of the discovery run.                           *)
(***************************************************************************)
\* Where the discovery run and its callers are once an error was raised.
ErrorPath ==
    {"nav_catch", "nav_finally", "nav_exit", "ext_discovered", "ext_catch",
     "main_catch", "exited"}

\* The home page was loaded and none of the search selectors is on it.
NoSearchBox == present = {} /\ nav.page = "open" /\ error = "none"

C14_StealthFailureDoesNotAbort ==
    [][pc = "nav_stealth" => pc' # "nav_catch"]_vars

\* The steps whose failures are caught where they happen: the distraction
\* tabs, the pointer drift, the consent dialog and the scrolling.
GuardedSteps ==
    {"nav_tabs", "nav_tab_load", "nav_mouse", "nav_cookies", "nav_scroll"}

\* C15: no guarded step hands an error to the catch clause of the run, and
\* after a failure inside one of them the run is at the step that follows
\* it, without an error: the home page after the tabs, the consent dialog
\* after the pointer drift, the search box after the consent dialog (no
\* button appeared, or the click threw), the challenge check after the
\* scrolling.
C15_GuardedStepsNeverFail ==
    /\ [][(pc \in GuardedSteps) => (pc' # "nav_catch" /\ error' = error)]_vars
    /\ [](swallowed # "none" =>
              /\ error = "none"
              /\ pc = CASE swallowed = "tabs" -> "nav_home"
                        [] swallowed = "mouse" -> "nav_cookies"
                        [] swallowed = "cookies" -> "nav_searchbox"
                        [] swallowed = "scroll" -> "nav_challenge")

\* The click on the consent button threw and the run is about to look for
\* the search box.
C15_Witness ==
    /\ swallowed = "cookies"
    /\ pc = "nav_searchbox"
    /\ error = "none"

\* C16: the main flow never waits on a distraction tab: while a tab is
\* still loading its page the main flow is not suspended on that load, and
\* it does not await the closing of the tabs.
C16_MainFlowNeverWaitsOnTabs ==
    (\E t \in DOMAIN tabs : tabs[t] = "loading") => pc # "nav_tab_load"

(***************************************************************************)
(* Properties of the fetch loop.                                           *)
(***************************************************************************)
\* An activation of fetchPageContentWithPlaywright is still running.
FetchInFlight ==
    \E k \in DOMAIN frames : frames[k].pc \notin {"done", "threw"}

\* C17: the URLs are fetched one at a time in position order. Whenever an
\* activation of the fetcher is running the loop is suspended on the fetch
\* of urls[idx] and the outcomes of all the URLs before it are recorded;
\* the loop index moves one URL at a time, out of the inter-page delay,
\* with the outcome of the URL it leaves recorded and nothing in flight;
\* and a fetch is started only then.
C17_OneFetchAtATime ==
    /\ [](FetchInFlight => (pc = "fetch_await" /\ Len(results) = idx))
    /\ [][idx' # idx =>
              /\ pc = "ext_delay"
              /\ idx' = idx + 1
              /\ Len(results) = idx'
              /\ ~FetchInFlight]_vars
    /\ [][(pc' = "fetch_await" /\ pc # "fetch_await") =>
              /\ ~FetchInFlight
              /\ Len(results) = idx
              /\ (idx > 0 => results[idx].url = urls[idx])]_vars

\* The second URL is being fetched after the fetch of the first failed.
C17_Witness ==
    /\ pc = "fetch_await"
    /\ idx = 1
    /\ FetchInFlight
    /\ Len(results) = 1
    /\ results[1].error # "none"

\* C18: the discovery session is not shared with the fetcher. Whenever an
\* activation of the fetcher exists, the page, the context and the browser
\* of the discovery run are closed and so are its distraction tabs, and
\* every activation works on its own handles: a page of the context it
\* created, in the browser it launched.
C18_DiscoverySessionNotShared ==
    frames # <<>> =>
        /\ \A h \in Handles : nav[h] = "closed"
        /\ tabs = <<>>
        /\ \A k \in DOMAIN frames :
              /\ frames[k].page # "null" => frames[k].context # "null"
              /\ frames[k].context # "null" => frames[k].browser # "null"

\* A fetch has its own page open after the discovery run closed everything.
C18_Witness ==
    /\ \E k \in DOMAIN frames : frames[k].pc = "goto" /\ frames[k].page = "open"
    /\ \A h \in Handles : navCloseCalls[h] = 1 /\ nav[h] = "closed"

(***************************************************************************)
(* Termination.                                                            *)
(***************************************************************************)
\* A close() of the discovery run or of a fetch rejected: an operation that
\* neither completed nor ran into a timeout.
CloseRejected ==
    \/ error = "close"
    \/ \E k \in DOMAIN frames : frames[k].pc = "threw"

\* The discovery run raised an error whose message is the timeout message.
TimedOut ==
    /\ pc = "nav_catch"
    /\ ErrorMessage(error) = ErrorMessage("timeout")

InvalidCommandLines ==
    { <<>>,
      <<T_n, W_2>>,
      <<T_q, W_empty>>,
      <<W_bogus>>,
      <<W_ka, W_bogus>>,
      <<T_q>>,
      <<W_ka, T_n>>,
      <<W_ka, T_n, W_0>>,
      <<W_ka, T_n, W_11>>,
      <<W_ka, T_n, W_2x>> }

\* C20: once an invalid command line has been parsed the process has
\* exited with a non-zero status, the usage message was printed, and no
\* proxy was probed and no browser launched.
C20_InvalidArgsExitWithUsage ==
    (pc # "parse" /\ args \in InvalidCommandLines) =>
        /\ pc = "exited"
        /\ exitCode > 0
        /\ usage
        /\ nav = NoHandles
        /\ proxyTests = [connectivity |-> FALSE, advanced |-> FALSE]

\* C21: the browser of the discovery run is launched headless when the
\* command line carries --headless as an option, and visible when it does
\* not.
C21_HeadlessOptionToggles ==
    launches # <<>> =>
        /\ args \in {<<W_ka, T_headless>>, <<T_headless, W_ka>>} =>
               launches[1].headless
        /\ args \in {<<W_ka>>, <<T_q, W_ka>>} => ~launches[1].headless

\* The challenge terms, lower case.
ChallengeTerms ==
    { <<"r","e","c","a","p","t","c","h","a">>, <<"c","a","p","t","c","h","a">>,
      <<"r","o","b","o","t">> }

\* The page holds a challenge term in some letter case.
ChallengePage(content) ==
    \E term \in ChallengeTerms : Includes(ToLowerCase(content), term)

\* C22: a results page holding a challenge term in any letter case is a
\* challenge page: the step that checks it ends in the catch clause, and
\* the URLs of such a page are never extracted.
C22_ChallengeInAnyCase ==
    /\ [][(pc = "nav_challenge" /\ pc' # pc /\ ChallengePage(pageContent))
              => pc' = "nav_catch"]_vars
    /\ [](pc = "nav_extract" => ~ChallengePage(pageContent))

(***************************************************************************)
(* Properties of the fingerprint selection.                                *)
(***************************************************************************)

\* The entries of the pool.
PoolEntries == {FINGERPRINT_POOL[k] : k \in 1..Len(FINGERPRINT_POOL)}

\* C23: every fingerprint selected is one of the entries of the pool; a
\* discovery run selects exactly one, at its launch, and the selected
\* entry is the same until the end of the run.
C23_FingerprintFromPool ==
    /\ [](/\ \A k \in 1..Len(fingerprints) : fingerprints[k] \in PoolEntries
          /\ Len(fingerprints) = Len(launches)
          /\ Len(fingerprints) <= 1
          /\ pc \notin {"nav_proxy", "nav_launch"} /\ error # "proxy"
                 => Len(fingerprints) = 1)
    /\ [][fingerprints # <<>> => fingerprints' = fingerprints]_vars

\* A run that selected the last entry of the pool and wrote its report.
C23_Witness ==
    /\ fingerprints = <<FINGERPRINT_POOL[4]>>
    /\ report.success
    /\ exitCode = 0

\* C24: the user agent recorded in the configuration of the written report
\* is the user agent of the fingerprint the discovery session used.
C24_ReportNamesFingerprintUsed ==
    report.success => report.config.userAgent = fingerprints[1].userAgent

(***************************************************************************)
(* The order of the steps of the discovery run.                            *)
(***************************************************************************)

\* The control points of getGoogleResultsWithHumanSimulation before its
\* catch and finally clauses, in the order of the source text.
NavSteps ==
    << "nav_proxy", "nav_launch", "nav_context", "nav_page", "nav_stealth",
       "nav_tabs", "nav_tab_load", "nav_home", "nav_mouse", "nav_cookies",
       "nav_searchbox", "nav_type", "nav_submit", "nav_scroll",
       "nav_challenge", "nav_extract", "nav_diagnostics" >>

StepIndex(p) == CHOOSE k \in 1..Len(NavSteps) : NavSteps[k] = p

InNavSteps(p) == \E k \in 1..Len(NavSteps) : NavSteps[k] = p

\* The state of the Navigation Controller at control point p with pending
\* error e and outcome o: 1 launch (the home page is not loaded yet),
\* 2 home loaded, 3 consent resolved, 4 query typed, 5 results loaded,
\* 6 challenge checked, 7 results extracted, 8 done, 9 Failed.
ControllerState(p, e, o) ==
    IF InNavSteps(p)
    THEN IF StepIndex(p) <= StepIndex("nav_home") THEN 1
         ELSE IF StepIndex(p) <= StepIndex("nav_cookies") THEN 2
         ELSE IF StepIndex(p) <= StepIndex("nav_type") THEN 3
         ELSE IF p = "nav_submit" THEN 4
         ELSE IF StepIndex(p) <= StepIndex("nav_challenge") THEN 5
         ELSE IF p = "nav_extract" THEN 6
         ELSE 7
    ELSE IF p = "nav_catch" THEN 9
    ELSE IF p \in {"nav_finally", "nav_exit"}
         THEN (IF e = "none" THEN 7 ELSE 9)
    ELSE IF o = "urls" THEN 8 ELSE 9

\* The steps that can always raise an error to the catch clause of the run
\* (the proxy gate and the stealth step can when they have work to do).
ThrowingSteps ==
    {"nav_launch", "nav_context", "nav_page", "nav_home", "nav_searchbox",
     "nav_type", "nav_submit", "nav_challenge", "nav_extract"}

\* The steps that cannot fail themselves and are followed by one that can.
StepsBeforeThrowing == {"nav_proxy", "nav_tabs", "nav_tab_load",
                        "nav_cookies", "nav_scroll"}

\* The steps followed by one of the former.
StepsTwoBeforeThrowing == {"nav_stealth", "nav_mouse"}

\* C25: the Navigation Controller goes through its states in the fixed
\* order launch, home loaded, consent resolved, query typed, results
\* loaded, challenge checked, results extracted, done: each step stays in
\* the state, moves to the next one, or moves to Failed; done and Failed
\* are terminal; the control points inside a state are visited in source
\* order (only the tab loop goes back); Failed can be reached from every
\* step: the step can fail, or the next one, or the one after it;
\* extraction happens only at the step that follows a passed
\* challenge check, and the search field is typed into only at the typing
\* step, which follows the consent handling.
C25_StepsInFixedOrder ==
    /\ [][LET a == ControllerState(pc, error, navOutcome)
              b == ControllerState(pc', error', navOutcome')
          IN  /\ a \in {8, 9} => b = a
              /\ a < 8 => b \in {a, a + 1, 9}
              /\ (InNavSteps(pc) /\ InNavSteps(pc') /\ pc' # pc)
                     => \/ StepIndex(pc') > StepIndex(pc)
                        \/ pc = "nav_tab_load" /\ pc' = "nav_tabs"
              /\ urls' # urls => pc = "nav_extract"
              /\ (field' # field /\ field' # EmptyField)
                     => pc \in {"nav_home", "nav_type"}
              /\ (pc' = "nav_type" /\ pc' # pc) => pc = "nav_searchbox"
              /\ (pc' = "nav_searchbox" /\ pc' # pc) => pc = "nav_cookies"]_vars
    /\ [](pc = "nav_extract" => ~ChallengeDetected(pageContent))
    /\ [](/\ pc \in ThrowingSteps => ENABLED (Next /\ pc' = "nav_catch")
          /\ pc \in StepsBeforeThrowing
                 => ENABLED (Next /\ pc' \in ThrowingSteps)
          /\ pc \in StepsTwoBeforeThrowing
                 => ENABLED (Next /\ pc' \in StepsBeforeThrowing))

\* A discovery run that went through every state and returned its URLs,
\* and was not one that failed.
C25_Witness ==
    /\ pc = "ext_discovered"
    /\ navOutcome = "urls"
    /\ urls # <<>>
    /\ ControllerState(pc, error, navOutcome) = 8

(***************************************************************************)
(* Properties of the extraction step.                                      *)
(***************************************************************************)

\* The extraction step has run and returned its list.
Extracted == pc \in {"nav_diagnostics", "nav_finally"} /\ error = "none"

\* The selectors of the cascade that match an element of the page.
MatchingSelectors == {k \in 1..NumSelectors : QuerySelectorAll(dom, k) # <<>>}

\* The earliest of them.
WinningSelector ==
    CHOOSE k \in MatchingSelectors : \A j \in MatchingSelectors : k <= j

\* The list computed from the elements el for n requested results.
ListOf(el, n) ==
    LET firsts == Slice(el, n * 2)
    IN  Slice(SelectSeq([k \in 1..Len(firsts) |-> Href(firsts[k].href)],
                        KeepUrl), n)

\* C26: the list is built from the elements of one selector, the earliest
\* of the cascade that matches an element of the page, also when the filter
\* removes every URL of that selector and a later selector has URLs that
\* would pass; a page no selector matches gives the empty list.
C26_EarliestMatchingSelectorOnly ==
    Extracted =>
        IF MatchingSelectors = {}
        THEN urls = <<>>
        ELSE urls = ListOf(QuerySelectorAll(dom, WinningSelector), maxResults)

\* The first selector matched only a video link, which the filter removed,
\* and the list is empty although a later selector matches a URL that
\* passes the filter.
C26_Witness ==
    /\ Extracted
    /\ urls = <<>>
    /\ MatchingSelectors # {}
    /\ WinningSelector = 1
    /\ \E k \in MatchingSelectors :
           /\ k > 1
           /\ ListOf(QuerySelectorAll(dom, k), maxResults) # <<>>

\* The elements the cascade matched.
Matched == SelectorCascade(dom)

\* A URL the list drops: not absolute, or holding the domain of the search
\* engine or an excluded domain.
Dropped(url) ==
    \/ SchemeOf(url) = <<>>
    \/ Includes(url, S_google_com)
    \/ Includes(url, S_youtube_com)
    \/ Includes(url, S_maps_google_com)
    \/ Includes(url, S_translate_google_com)

\* The positions, among the first 2 * maxResults matched elements, of the
\* URLs that are not dropped.
Survivors ==
    {i \in 1..Len(Matched) :
        i <= 2 * maxResults /\ ~Dropped(Href(Matched[i].href))}

\* The j-th survivor in encountered order.
Survivor(j) ==
    CHOOSE i \in Survivors : Cardinality({h \in Survivors : h < i}) = j - 1

\* C27: the list holds the first maxResults URLs, in encountered order, of
\* those among the first 2 * maxResults matched elements that are absolute
\* and hold neither the search engine domain nor an excluded domain; no
\* element after the first 2 * maxResults contributes.
C27_TruncateFilterTruncate ==
    Extracted =>
        /\ Len(urls) = IF Cardinality(Survivors) < maxResults
                       THEN Cardinality(Survivors) ELSE maxResults
        /\ \A j \in 1..Len(urls) : urls[j] = Href(Matched[Survivor(j)].href)

\* One result was requested, the first two matched elements were dropped
\* and the third would have passed: the list is empty.
C27_Witness ==
    /\ Extracted
    /\ maxResults = 1
    /\ Len(Matched) = 3
    /\ Dropped(Href(Matched[1].href))
    /\ Dropped(Href(Matched[2].href))
    /\ ~Dropped(Href(Matched[3].href))
    /\ urls = <<>>

(***************************************************************************)
(* Properties of the retries of a fetch.                                   *)
(***************************************************************************)

\* The delays before the first, the second and the third retry.
RetryDelays == <<1000, 2000, 4000>>

\* Attempt k of the current URL failed with an error isRetryableError
\* accepts.
FailedRetryable(k) ==
    /\ k <= Len(attempts)
    /\ attempts[k].error # "none"
    /\ isRetryableError(attempts[k].error)

\* Attempt k is followed by a retry, made or waited for.
Retried(k) == k < Len(frames) \/ frames[k].pc = "backoff"

\* C28 (as the code has it): an attempt is retried only when it failed
\* with an error isRetryableError accepts and fewer than maxRetries retries
\* were made; the delay before the k-th retry is retryDelay * 2^(k-1); an
\* attempt that failed otherwise, or the attempt after the last retry, is
\* the last one for its URL: a URL gets at most maxRetries + 1 attempts,
\* the first one and maxRetries retries.
C28_RetryDiscipline ==
    /\ Len(frames) <= maxRetries + 1
    /\ \A k \in 1..Len(frames) :
          /\ Retried(k) => /\ FailedRetryable(k)
                           /\ k <= maxRetries
                           /\ frames[k].delay = RetryDelays[k]
          /\ (k <= Len(attempts) /\ ~FailedRetryable(k)) => ~Retried(k)
          /\ k = maxRetries + 1 => frames[k].pc # "backoff"

\* The third retry of a URL was made after 4000 ms and failed with a
\* retryable error too: its failure is returned.
C28_Witness ==
    /\ Len(frames) = maxRetries + 1
    /\ frames[3].delay = 4000
    /\ FailedRetryable(maxRetries + 1)
    /\ frames[maxRetries + 1].ret = FailureOutcome(attempts[4].error)

\* C28 (as stated): the number of attempts made for a URL never exceeds
\* the retry ceiling, maxRetries.
C28_AttemptsWithinCeiling == Len(frames) <= maxRetries

(***************************************************************************)
(* Properties of the fetch outcome.                                        *)
(***************************************************************************)

\* The outcome records the activations of the current fetch returned.
ReturnedOutcomes ==
    {frames[k].ret : k \in {j \in 1..Len(frames) :
                               frames[j].ret.kind = "outcome"}}

\* C29: an outcome of the browser-rendered fetch says success only with a
\* 2xx response and an HTML text of at least 100 characters; every other
\* outcome (an HTTP error response, no response, a shorter text, an error
\* raised) says failure and has html null. The same holds of the entries
\* of the result list built from the outcomes, and an attempt that got no
\* 2xx response or too short a text never returned success.
C29_SuccessNeedsOkAndContent ==
    /\ \A o \in ReturnedOutcomes :
          IF o.success
          THEN o.status \in 200..299 /\ o.html >= 100
          ELSE o.html = HtmlNull
    /\ \A i \in 1..Len(results) :
          IF results[i].success
          THEN /\ results[i].status \in 200..299
               /\ results[i].html >= 100
               /\ results[i].htmlLength = results[i].html
          ELSE results[i].html = HtmlNull /\ results[i].htmlLength = 0
    /\ \A k \in 1..Len(frames) :
          (/\ k <= Len(attempts)
           /\ frames[k].ret.kind = "outcome"
           /\ \/ attempts[k].status \notin 200..299
              \/ attempts[k].error # "none")
             => ~frames[k].ret.success /\ frames[k].ret.html = HtmlNull

\* The result list holds an entry fetched with a 200 response and 100
\* characters, and the entry of a URL that answered 404.
C29_Witness ==
    /\ Len(results) = 2
    /\ results[1].success /\ results[1].status = 200 /\ results[1].html = 100
    /\ ~results[2].success /\ results[2].html = HtmlNull
    /\ Len(attempts) = 1 /\ attempts[1].status = 404

(***************************************************************************)
(* Properties of the stealth init script.                                  *)
(***************************************************************************)

\* C30: with stealth enabled the init script is on the discovery page when
\* the navigation to the home page of the search engine is issued, and it
\* is registered at the stealth step only, once; with stealth disabled it
\* is never registered.
C30_InitScriptBeforeNavigation ==
    /\ [][/\ (pc = "nav_home" /\ pc' # pc)
                 => initScripts = IF stealthMode THEN 1 ELSE 0
          /\ initScripts' # initScripts
                 => pc = "nav_stealth" /\ initScripts' = 1]_vars
    /\ [](~stealthMode => initScripts = 0)
    /\ [](pc \in {"nav_proxy", "nav_launch", "nav_context", "nav_page",
                  "nav_stealth"} => initScripts = 0)

\* A run with stealth enabled has loaded the home page, the init script
\* registered.
C30_Witness ==
    /\ stealthMode
    /\ initScripts = 1
    /\ injected # <<>>
    /\ pc = "nav_mouse"
    /\ error = "none"

(***************************************************************************)
(* Properties of the fingerprint the session presents.                     *)
(***************************************************************************)

\* The context configuration c and the overrides o are those of entry e.
PresentsEntry(c, o, e) ==
    /\ c.userAgent = e.userAgent
    /\ c.viewport = e.viewport
    /\ c.locale = e.locale
    /\ c.timezoneId = e.timezoneId
    /\ c.acceptLanguage = e.acceptLanguage
    /\ o.languages = e.languages
    /\ o.deviceMemory = e.memory
    /\ o.hardwareConcurrency = e.cores
    /\ o.platform = e.platform

\* C31: the languages, device memory, core count and platform the stealth
\* script injects are those of the pool entry whose user agent, viewport,
\* locale, timezone and Accept-Language configure the context, whichever
\* entry was selected: it is the entry selected for the run.
C31_OneFingerprintPresented ==
    /\ Len(injected) = initScripts
    /\ Len(contextConfigs) <= 1
    /\ \A k \in 1..Len(injected) :
          /\ contextConfigs # <<>>
          /\ PresentsEntry(contextConfigs[1], injected[k], fingerprints[1])
          /\ \E i \in 1..Len(FINGERPRINT_POOL) :
                PresentsEntry(contextConfigs[1], injected[k],
                              FINGERPRINT_POOL[i])

\* The run selected the last entry of the pool: its context has the
\* entry's user agent and its script injects the entry's twelve cores.
C31_Witness ==
    /\ injected # <<>>
    /\ contextConfigs # <<>>
    /\ contextConfigs[1].userAgent = FINGERPRINT_POOL[4].userAgent
    /\ injected[1].hardwareConcurrency = 12
    /\ pc = "nav_tabs"

(***************************************************************************)
(* Properties of the submission of the query.                              *)
(***************************************************************************)

\* C32: once Enter was pressed, a run whose results page has loaded goes
\* on to the delay and the scroll, whether the page loaded before or after
\* the run began to wait for it.
C32_LoadedResultsAreScrolled ==
    [][(pc = "nav_submit" /\ pc' # pc /\ pageContent' # <<>>)
           => pc' = "nav_scroll" /\ error' = "none"]_vars

(***************************************************************************)
(* Properties of the end of the run.                                       *)
(***************************************************************************)

\* The job events emitted when the run ended with this terminal event.
JobEvents(last) == IF socket THEN <<"job_start", last>> ELSE <<>>

\* C33: a run with valid arguments ends, with exit status 0 or 1 and
\* nothing after it. With status 0 the report was written, once, when every
\* URL had its outcome, and job_complete was emitted after job_start; with
\* status 1 no report was written and job_error was emitted after
\* job_start. Until the run ends only job_start is emitted, and without a
\* socket nothing is emitted.
C33_OneOfTwoEndings ==
    /\ <>(pc = "exited")
    /\ [](pc = "exited" <=> exitCode \in {0, 1})
    /\ [](exitCode = -1 =>
             emitted = IF socket THEN <<"job_start">> ELSE <<>>)
    /\ [](exitCode = 0 =>
             /\ report.success
             /\ Len(report.organicResults) = Len(urls)
             /\ emitted = JobEvents("job_complete"))
    /\ [](exitCode = 1 =>
             /\ report = NoReport
             /\ emitted = JobEvents("job_error"))
    /\ [][/\ pc # "exited"
          /\ report' # report =>
                /\ pc = "ext_write"
                /\ report = NoReport
                /\ Len(results) = Len(urls)
                /\ report'.organicResults = results]_vars

\* A run with a socket ended well: report written, job_start and
\* job_complete emitted, exit status 0.
C33_Witness ==
    /\ socket
    /\ pc = "exited"
    /\ exitCode = 0
    /\ report.success
    /\ emitted = <<"job_start", "job_complete">>

(***************************************************************************)
(* Properties of the teardown.                                             *)
(***************************************************************************)

\* close() was called on handle h of the discovery run and rejected.
NavCloseFailed(h) == navCloseCalls[h] = 1 /\ nav[h] = "open"

\* C34: in the teardown of the discovery run a close call that fails does
\* not keep the remaining handles from being closed: after a failed
\* page.close() the context and the browser are closed, after a failed
\* context.close() the browser is closed.
C34_CloseFailureDoesNotStopTeardown ==
    navOutcome # "none" =>
        /\ NavCloseFailed("page") =>
              /\ navCloseCalls.context = 1
              /\ navCloseCalls.browser = 1
        /\ NavCloseFailed("context") => navCloseCalls.browser = 1

(***************************************************************************)
(* Properties of the browsers of a fetch.                                  *)
(***************************************************************************)

\* The activations of the current fetch whose browser is open.
OpenBrowsers == {k \in DOMAIN frames : frames[k].browser = "open"}

\* Handle h of activation f is not open.
NotOpen(f, h) == f[h] \in {"null", "closed"}

\* C35: during the retries of a URL at most one browser of the fetcher is
\* open; an attempt that failed has closed its page, its context and its
\* browser when its backoff delay begins and when the next attempt starts;
\* and when the outcome is returned every browser launched for the URL is
\* closed.
C35_OneFetcherBrowserAtATime ==
    /\ Cardinality(OpenBrowsers) <= 1
    /\ \A k \in DOMAIN frames :
          /\ frames[k].pc = "backoff" =>
                \A h \in Handles : NotOpen(frames[k], h)
          /\ k < Len(frames) =>
                (frames[k + 1].pc = "launch" =>
                    \A h \in Handles : NotOpen(frames[k], h))
    /\ (frames # <<>> /\ Settled(frames, 1).kind = "outcome") =>
          OpenBrowsers = {}

(***************************************************************************)
(* Properties of what the fetch delivers.                                  *)
(***************************************************************************)

\* C36: fetchPageContentWithPlaywright never raises to its caller: the
\* promise the loop awaits never rejects, also when a close call of the
\* cleanup fails, and a fetch whose cleanup failed is recorded as an entry
\* with success false and the loop goes on.
C36_FetcherNeverRaises ==
    /\ [](frames # <<>> => Settled(frames, 1).kind # "rejected")
    /\ [][(pc = "fetch_await" /\ pc' # pc)
              => /\ pc' \in {"ext_delay", "ext_write"}
                 /\ Len(results') = Len(results) + 1]_vars

\* C37: every failed entry of the result list explains its failure: it
\* carries an error description or an HTTP status.
C37_FailedEntriesExplained ==
    \A i \in 1..Len(results) :
        ~results[i].success =>
            results[i].error # "none" \/ results[i].status # 0

(***************************************************************************)
(* Properties of a discovery without URLs.                                 *)
(***************************************************************************)

\* The discovery run returned an empty URL list to its caller.
NoUrlDiscovered ==
    /\ navOutcome = "urls"
    /\ urls = <<>>
    /\ pc \in {"ext_catch", "main_catch", "exited"}

\* C38: when the discovery returns no URL the run fails: nothing is
\* fetched, no report is written, the exit status is 1. So a written
\* report has at least one entry, and the number of entries, which divides
\* the duration in stats.avgTimePerPage, is at least 1.
C38_NoUrlNoReport ==
    /\ [](navOutcome = "urls" /\ urls = <<>>
             => /\ pc \in {"ext_discovered", "ext_catch", "main_catch",
                           "exited"}
                /\ frames = <<>> /\ attempts = <<>> /\ results = <<>>
                /\ report = NoReport
                /\ exitCode \in {-1, 1})
    /\ [](report.success =>
             /\ Len(report.organicResults) >= 1
             /\ report.stats.total >= 1)
    /\ [][report' # report => Len(results) >= 1]_vars

\* The discovery returned an empty list and the run has ended with the
\* error of the empty list and exit status 1.
C38_Witness ==
    /\ NoUrlDiscovered
    /\ pc = "exited"
    /\ error = "noresult"
    /\ exitCode = 1

(***************************************************************************)
(* Properties of the delayed closing of the distraction tabs.              *)
(***************************************************************************)

\* C39: whenever the callback that closes the distraction tabs runs, it
\* raises no error into the run, does not move the main flow and leaves the
\* main page, its context and its browser as they are; and when the
\* teardown of the discovery session is over, whether the callback has run
\* or not, no distraction tab is left open.
C39_TabsClosedWithSession ==
    /\ [][(timer /\ ~timer' /\ pc # "nav_exit")
              => UNCHANGED <<pc, error, nav, navCloseCalls, navOutcome>>]_vars
    /\ [](pc = "nav_exit" => tabs = <<>>)

====
